---- MODULE Spec2Model ----
(***************************************************************************)
(* Model of the SIGINT chat panel of Aguila (src/qtgui/docksigint.cpp):    *)
(* the orchestrator DockSigint on the interactive thread, the              *)
(* DatabaseWorker on the persistence thread and the NetworkWorker on the   *)
(* network thread, with the queued signal/slot connections between them.   *)
(*                                                                         *)
(* A queued connection is a FIFO of events per receiving thread:           *)
(*   dbQueue   : saveMessageToDb / loadHistoryFromDb  (main -> database)   *)
(*   netQueue  : sendMessageToWorker                  (main -> network)    *)
(*   mainQueue : every signal of a worker             (workers -> main)    *)
(* A call made directly on the worker object from the interactive thread   *)
(* (loadAllChats, loadSetting, saveSetting) runs inside the calling        *)
(* handler, and the signals it emits are delivered directly.               *)
(***************************************************************************)
EXTENDS Integers, Sequences, FiniteSets, TLC

VARIABLES
    pc,                      \* position of the constructor's tail / "running"
    currentChatId,           \* DockSigint::currentChatId
    messageHistory,          \* DockSigint::messageHistory (the mirror)
    chatList,                \* DockSigint::chatList
    view,                    \* the rendered #messages element of the web view
    m_lastActiveChatLoaded,  \* DockSigint::m_lastActiveChatLoaded
    m_chatsLoaded,           \* DockSigint::m_chatsLoaded
    anthropicApiKey,         \* DockSigint::anthropicApiKey
    currentModel,            \* DockSigint::currentModel
    db,                      \* DatabaseWorker::db (the connection of the worker)
    threads,                 \* the QThread objects the orchestrator owns
    dbQueue,                 \* events queued to the database thread
    netQueue,                \* events queued to the network thread
    mainQueue,               \* events queued to the interactive thread
    inflight,                \* QNetworkReply objects not yet finished
    chats,                   \* table chats
    messages,                \* table messages
    settings,                \* table settings
    capture,                 \* the SpectrumCapture object and the calls into it
    log                      \* history of the run (observation only)

vars == <<pc, currentChatId, messageHistory, chatList, view,
          m_lastActiveChatLoaded, m_chatsLoaded, anthropicApiKey, currentModel, db, threads,
          dbQueue, netQueue, mainQueue, inflight,
          chats, messages, settings, capture, log>>

-----------------------------------------------------------------------------
(* Bounds of the model *)

MaxSends == 2        \* user turns submitted in one run
MaxSwitches == 2     \* chat selections made by the user in one run
MaxPageLoads == 1    \* loadFinished events of the web page in one run
MaxDbFailures == 1   \* database operations that fail in one run
MaxNewChats == 1     \* chats created by the user in one run
MaxDspChanges == 1   \* changes of the DSP state signalled in one run
MaxUserEvents == 2   \* events of the user interface handled in one run
MaxSeconds == 2      \* seconds of CURRENT_TIMESTAMP that pass in one run
MaxCaptureCalls == 2 \* calls of SpectrumCapture::captureRange in one run
MaxCaptureDepth == 2 \* calls of captureRange that are active at one time
MaxStops == 1        \* calls of SpectrumCapture::stop in one run

-----------------------------------------------------------------------------
(* Texts *)

WelcomeText == "Welcome to the Aguila SIGINT platform"
PlaceholderText == "Welcome to your new chat session"
ApiKeyErrorText == "Error: API key not found"
LastActiveKey == "last_active_chat"

UserTexts == {"hello"}

(* QString::number(int) and QString::toInt(): toInt yields 0 for a text
   that is not a number. *)
NumberStr(n) ==
    CASE n = 1 -> "1" [] n = 2 -> "2" [] n = 3 -> "3" [] OTHER -> "0"

ToInt(s) ==
    CASE s = "1" -> 1 [] s = "2" -> 2 [] s = "3" -> 3 [] OTHER -> 0

-----------------------------------------------------------------------------
(* Events *)

SaveReq(chatId, role, content) ==
    [op |-> "saveMessage", chatId |-> chatId, role |-> role, content |-> content]

LoadReq(chatId) ==
    [op |-> "loadChatHistory", chatId |-> chatId, role |-> "", content |-> ""]

(* Signals of the workers.  `chat` on historyLoaded is not carried by the
   signal: it records the chat id the history was read for. *)
NoMsgs == <<>>

MessageSavedEv(id) ==
    [sig |-> "messageSaved", id |-> id, msgs |-> NoMsgs, text |-> "",
     chat |-> 0, req |-> 0]

HistoryLoadedEv(msgs, chatId) ==
    [sig |-> "historyLoaded", id |-> 0, msgs |-> msgs, text |-> "",
     chat |-> chatId, req |-> 0]

DbErrorEv(text) ==
    [sig |-> "error", id |-> 0, msgs |-> NoMsgs, text |-> text,
     chat |-> 0, req |-> 0]

(* Signals of the NetworkWorker.  `req` is not carried by the signal: it
   records the request the outcome belongs to. *)
MessageReceivedEv(text, req) ==
    [sig |-> "messageReceived", id |-> 0, msgs |-> NoMsgs, text |-> text,
     chat |-> 0, req |-> req]

ErrorOccurredEv(text, req) ==
    [sig |-> "errorOccurred", id |-> 0, msgs |-> NoMsgs, text |-> text,
     chat |-> 0, req |-> req]

ViewItem(content, isUser, chatId) ==
    [content |-> content, isUser |-> isUser, chat |-> chatId]

-----------------------------------------------------------------------------
(* DatabaseWorker: the queries, as functions of the tables *)

RECURSIVE SelectSeq2(_, _)
SelectSeq2(s, chatId) ==
    IF s = <<>> THEN <<>>
    ELSE IF Head(s).chat_id = chatId
         THEN <<[role |-> Head(s).role, content |-> Head(s).content]>>
                  \o SelectSeq2(Tail(s), chatId)
         ELSE SelectSeq2(Tail(s), chatId)

(* The rows of a chat, in the order of their row ids. *)
RECURSIVE SelectRows(_, _)
SelectRows(s, chatId) ==
    IF s = <<>> THEN <<>>
    ELSE IF Head(s).chat_id = chatId
         THEN <<Head(s)>> \o SelectRows(Tail(s), chatId)
         ELSE SelectRows(Tail(s), chatId)

(* The orders ORDER BY timestamp ASC may return n rows in: every order that
   is non-decreasing in the timestamp.  The query names no second key, so
   the order of rows of one timestamp is not determined. *)
TimestampOrders(rows) ==
    {p \in [1..Len(rows) -> 1..Len(rows)] :
        /\ \A i, j \in 1..Len(rows) : i # j => p[i] # p[j]
        /\ \A i \in 1..(Len(rows) - 1) :
              rows[p[i]].timestamp <= rows[p[i + 1]].timestamp}

(* SELECT role, content FROM messages WHERE chat_id = ? ORDER BY timestamp
   ASC: the results the query may produce *)
loadChatHistory(tbl, chatId) ==
    LET rows == SelectRows(tbl, chatId)
    IN {[i \in 1..Len(rows) |->
            [role |-> rows[p[i]].role, content |-> rows[p[i]].content]] :
          p \in TimestampOrders(rows)}

(* SELECT id, name FROM chats ORDER BY id ASC; the table is kept in id order *)
loadAllChats(tbl) == tbl

(* SELECT value FROM settings WHERE key = ?: the value of a row of that key;
   settingLoaded carries the empty text when there is none.  The table is
   the set of its rows. *)
loadSetting(tbl, key) ==
    IF \E r \in tbl : r.key = key
    THEN (CHOOSE r \in tbl : r.key = key).value
    ELSE ""

(* A plain INSERT in place of INSERT OR REPLACE. *)
saveSetting_insert(tbl, key, value) ==
    tbl \cup {[key |-> key, value |-> value]}

(* INSERT OR REPLACE INTO settings (key, value, updated_at): key is the
   primary key, so the rows of that key are deleted before the insert *)
saveSetting(tbl, key, value) ==
    {r \in tbl : r.key # key} \cup {[key |-> key, value |-> value]}

(* INSERT INTO chats (name): the row id is the next rowid *)
createChat(tbl, name) == Append(tbl, [id |-> Len(tbl) + 1, name |-> name])

(* The new row put in front of the table in place of its end. *)
InsertMessage_front(tbl, chatId, role, content, now) ==
    <<[id |-> Len(tbl) + 1, chat_id |-> chatId,
       role |-> role, content |-> content, timestamp |-> now]>> \o tbl

(* The values CURRENT_TIMESTAMP may have at the next insert: the second of
   the newest row, or the one after it.  The rows of earlier runs carry the
   timestamp 0, and the seconds of this run are counted from 1. *)
CurrentTimestamps(tbl) ==
    LET last == IF tbl = <<>> \/ tbl[Len(tbl)].timestamp = 0 THEN 1
                ELSE tbl[Len(tbl)].timestamp
    IN {t \in {last, last + 1} : t <= MaxSeconds}

(* INSERT INTO messages (chat_id, role, content): the row id is the next
   rowid and the timestamp defaults to CURRENT_TIMESTAMP *)
InsertMessage(tbl, chatId, role, content, now) ==
    Append(tbl, [id |-> Len(tbl) + 1, chat_id |-> chatId,
                 role |-> role, content |-> content, timestamp |-> now])

-----------------------------------------------------------------------------
(* SpectrumCapture (src/qtgui/spectrum_capture.cpp).  Its signals are
   connected directly: the slots run inside the emit, and a slot may call
   the object again.  captureRange is therefore modelled up to each signal
   it emits while it holds the capture: a frame on `stack` is a call that
   waits inside such an emit for the slots to return. *)

NoReceiverText == "No receiver available"
AlreadyCapturingText == "Capture already in progress"
InvalidRangeText == "Invalid range parameters"
SampleRateText == "Requested sample rate exceeds receiver capabilities"
FftSizeText == "FFT size must be a power of 2"
PrepareFailedText == "Failed to prepare capture parameters"
ExtractionFailedText == "FFT data extraction failed"
StoppedText == "Capture stopped by user"

CaptureRange(start_freq, end_freq, fft_size, sample_rate) ==
    [start_freq |-> start_freq, end_freq |-> end_freq,
     fft_size |-> fft_size, sample_rate |-> sample_rate]

NoRange == CaptureRange(0, 0, 0, 0)

(* CaptureRange::isValid *)
isValid(range) ==
    /\ range.start_freq < range.end_freq
    /\ range.fft_size > 0
    /\ range.sample_rate > 0

(* receiver::get_input_rate() of the receiver the object was given *)
ReceiverSampleRate == 2

(* a & b of two integers that are not negative *)
RECURSIVE BitAnd(_, _)
BitAnd(a, b) ==
    IF a = 0 \/ b = 0 THEN 0
    ELSE (a % 2) * (b % 2) + 2 * BitAnd(a \div 2, b \div 2)

getCurrentSampleRate(c) == IF c.m_rx THEN ReceiverSampleRate ELSE 0

(* validateRange: the error text, empty when the range is accepted *)
validateRange(c, range) ==
    IF ~isValid(range) THEN InvalidRangeText
    ELSE IF range.sample_rate > getCurrentSampleRate(c) THEN SampleRateText
    ELSE IF BitAnd(range.fft_size, range.fft_size - 1) # 0 THEN FftSizeText
    ELSE ""

(* The object after its constructor, for a receiver pointer that is set or
   null. *)
SpectrumCapture(rx) ==
    [m_capturing |-> FALSE, m_rx |-> rx, m_current_range |-> NoRange,
     stack |-> <<>>, events |-> <<>>, returned |-> <<>>,
     calls |-> 0, stops |-> 0]

(* The members a caller can tell a capture in progress by. *)
Held(c) == [m_capturing |-> c.m_capturing, range |-> c.m_current_range]

(* emit of a signal by the call `call` (0: by stop) *)
EmitCapture(c, sig, call, text) ==
    [c EXCEPT !.events = Append(@, [sig |-> sig, call |-> call,
                                    text |-> text])]

(* return of the result; the record keeps what the call found and what it
   leaves. *)
ReturnResult(c, call, success, text, found) ==
    [c EXCEPT !.returned = Append(@, [call |-> call, success |-> success,
                                      error_message |-> text,
                                      found |-> found, left |-> Held(c)])]

Frame(call, range, at, found) ==
    [call |-> call, range |-> range, at |-> at, found |-> found]

Pop(c) == [c EXCEPT !.stack = SubSeq(@, 1, Len(@) - 1)]

SetTop(c, f) == [c EXCEPT !.stack[Len(c.stack)] = f]

(* captureRange from its entry to the emit of captureStarted (lines 26-54) *)
captureRange(c, range) ==
    LET call == c.calls + 1
        c0 == [c EXCEPT !.calls = call]
        error_msg == validateRange(c, range)
    IN IF ~c.m_rx
       THEN ReturnResult(EmitCapture(c0, "captureError", call, NoReceiverText),
                         call, FALSE, NoReceiverText, Held(c))
       ELSE IF c.m_capturing
       THEN ReturnResult(EmitCapture(c0, "captureError", call,
                                     AlreadyCapturingText),
                         call, FALSE, AlreadyCapturingText, Held(c))
       ELSE IF error_msg # ""
       THEN ReturnResult(EmitCapture(c0, "captureError", call, error_msg),
                         call, FALSE, error_msg, Held(c))
       ELSE LET c1 == [c0 EXCEPT !.m_capturing = TRUE,
                                 !.m_current_range = range]
                c2 == EmitCapture(c1, "captureStarted", call, "")
            IN [c2 EXCEPT !.stack = Append(@, Frame(call, range,
                                                    "captureStarted", Held(c)))]

PrepareOutcomes == {"ok", "fftSizeZero", "getFails", "throws"}
ExtractOutcomes == {"ok", "fftSizeZero", "getFails"}

(* prepareCaptureParameters for what the receiver answers *)
prepareCaptureParameters(outcome) == outcome = "ok"

(* The failure of prepareCaptureParameters that leaves the flag set. *)
captureRange_prepare_keepsFlag(c, f, outcome) ==
    IF ~prepareCaptureParameters(outcome)
    THEN ReturnResult(Pop(EmitCapture(c, "captureError", f.call,
                                      PrepareFailedText)),
                      f.call, FALSE, PrepareFailedText, f.found)
    ELSE SetTop(EmitCapture(c, "progressUpdate", f.call, "50"),
                [f EXCEPT !.at = "progressUpdate50"])

(* captureRange after the slots of captureStarted returned (lines 56-62) *)
captureRange_prepare(c, f, outcome) ==
    IF ~prepareCaptureParameters(outcome)
    THEN LET c1 == [c EXCEPT !.m_capturing = FALSE]
         IN ReturnResult(Pop(EmitCapture(c1, "captureError", f.call,
                                         PrepareFailedText)),
                         f.call, FALSE, PrepareFailedText, f.found)
    ELSE SetTop(EmitCapture(c, "progressUpdate", f.call, "50"),
                [f EXCEPT !.at = "progressUpdate50"])

(* The end of captureRange (lines 77-79) *)
captureRange_end(c, f, success, text) ==
    LET c1 == [c EXCEPT !.m_capturing = FALSE]
    IN ReturnResult(Pop(EmitCapture(c1, "captureComplete", f.call, text)),
                    f.call, success, text, f.found)

(* captureRange after the slots of progressUpdate(50) returned: the try
   block around extractFftData (lines 64-75, 165-181) *)
captureRange_extract(c, f, outcome) ==
    IF outcome = "ok"
    THEN SetTop(EmitCapture(c, "progressUpdate", f.call, "100"),
                [f EXCEPT !.at = "progressUpdate100"])
    ELSE captureRange_end(c, f, FALSE, ExtractionFailedText)

(* The call on top of the stack goes on when the slots returned. *)
captureRange_resume(c, prepared, extracted) ==
    LET f == c.stack[Len(c.stack)]
    IN CASE f.at = "captureStarted" -> captureRange_prepare(c, f, prepared)
         [] f.at = "progressUpdate50" -> captureRange_extract(c, f, extracted)
         [] OTHER -> captureRange_end(c, f, TRUE, "")

stop(c) ==
    IF c.m_capturing
    THEN EmitCapture([c EXCEPT !.m_capturing = FALSE], "captureError", 0,
                     StoppedText)
    ELSE c

-----------------------------------------------------------------------------
(* NetworkWorker *)

CannedAck == "Tuning request processed - adjusting radio frequency"
ShapeErrorText == "Error: Response does not contain 'content' field"

(* QJsonValue::toString() of the content of a message: a structured
   (array) content is no string and reads as the empty text. *)
ContentToString(m) == IF m.parts THEN "" ELSE m.content

(* messages.last().toObject()["content"].toString() *)
latestMessage(msgs) == ContentToString(msgs[Len(msgs)])

(* What the helper process did: whether the temporary script could be
   opened, whether the process started, whether it finished within the
   wait, its exit code and what it wrote to standard output. *)
Helper(tmp, started, finished, exit, stdout) ==
    [tmp |-> tmp, started |-> started, finished |-> finished,
     exit |-> exit, stdout |-> stdout]

JsonTuningTrue == "{requires_tuning: 'true'}"
JsonTuningFalse == "{requires_tuning: 'false'}"
JsonTuningBool == "{requires_tuning: true}"
JsonNoField == "{confidence: 'high'}"
NotJsonOut == "Traceback (most recent call last)"
EmptyOut == ""

(* QJsonDocument::fromJson(stdout).isNull() *)
JsonIsNull(out) == out \in {NotJsonOut, EmptyOut}

(* doc.object()["requires_tuning"].toString(): the empty text unless the
   document is an object whose field is a string *)
JsonRequiresTuning(out) ==
    CASE out = JsonTuningTrue -> "true"
      [] out = JsonTuningFalse -> "false"
      [] OTHER -> ""

(* The field read with toBool() in place of the comparison of its text. *)
analyzeTuningRequest_toBool(message, h) ==
    IF h.tmp /\ h.started /\ h.finished /\ ~JsonIsNull(h.stdout)
    THEN h.stdout = JsonTuningBool
    ELSE FALSE

analyzeTuningRequest(message, h) ==
    IF h.tmp
    THEN IF h.started
         THEN IF h.finished
              THEN IF ~JsonIsNull(h.stdout)
                   THEN JsonRequiresTuning(h.stdout) = "true"
                   ELSE FALSE
              ELSE FALSE
         ELSE FALSE
    ELSE FALSE

(* The helper fails before it has run to the end; it exits with 0 after
   printing one of the outputs; it exits with 1 after printing a traceback
   or after printing its result. *)
AllHelpers ==
    {Helper(FALSE, FALSE, FALSE, 0, EmptyOut),
     Helper(TRUE, FALSE, FALSE, 0, EmptyOut),
     Helper(TRUE, TRUE, FALSE, 0, EmptyOut)}
    \cup {Helper(TRUE, TRUE, TRUE, 0, o) :
            o \in {JsonTuningTrue, JsonTuningFalse, JsonTuningBool,
                   JsonNoField, NotJsonOut}}
    \cup {Helper(TRUE, TRUE, TRUE, 1, o) : o \in {NotJsonOut, JsonTuningTrue}}

(* The helper works and answers with one line of JSON. *)
WorkingHelpers ==
    {Helper(TRUE, TRUE, TRUE, 0, o) : o \in {JsonTuningTrue, JsonTuningFalse}}

(* What a finished QNetworkReply holds: reply->error() and the body. *)
Response(err, body) == [error |-> err, body |-> body]

BodyText == "{content: [{type: 'text', text: 'hi there'}]}"
BodyEmptyContent == "{content: []}"
BodyNoText == "{content: [{type: 'tool_use'}]}"
BodyNoContent == "{type: 'error'}"
BodyEmpty == ""

(* jsonObject.contains("content") *)
BodyHasContent(body) == body \in {BodyText, BodyEmptyContent, BodyNoText}

(* jsonObject["content"].toArray()[0].toObject()["text"].toString() *)
BodyFirstText(body) == IF body = BodyText THEN "hi there" ELSE ""

(* QString("Error: %1\nResponse: %2").arg(errorString, body) *)
TransportErrorText(r) ==
    CASE r.body = BodyNoContent -> "Error: Connection refused Response: {type: 'error'}"
      [] OTHER -> "Error: Connection refused Response: "

AllResponses ==
    {Response("NoError", b) :
        b \in {BodyText, BodyEmptyContent, BodyNoText, BodyNoContent}}
    \cup {Response("ConnectionRefusedError", BodyEmpty)}

UsualResponses ==
    {Response("NoError", BodyText), Response("ConnectionRefusedError", BodyEmpty)}

(* The handler without its branch for a response that has no content. *)
replyFinished_noElse(r, req) ==
    IF r.error = "NoError"
    THEN IF BodyHasContent(r.body)
         THEN <<MessageReceivedEv(BodyFirstText(r.body), req)>>
         ELSE <<>>
    ELSE <<ErrorOccurredEv(TransportErrorText(r), req)>>

(* The handler of QNetworkReply::finished: the signal it emits. *)
replyFinished(r, req) ==
    IF r.error = "NoError"
    THEN IF BodyHasContent(r.body)
         THEN <<MessageReceivedEv(BodyFirstText(r.body), req)>>
         ELSE <<ErrorOccurredEv(ShapeErrorText, req)>>
    ELSE <<ErrorOccurredEv(TransportErrorText(r), req)>>

(* NetworkWorker::sendMessage up to the post: the signals it emits and the
   number of requests it posts. *)
sendMessage(apiKey, model, msgs, h, req) ==
    IF analyzeTuningRequest(latestMessage(msgs), h)
    THEN [emit |-> <<MessageReceivedEv(CannedAck, req)>>, post |-> 0]
    ELSE [emit |-> <<>>, post |-> 1]

-----------------------------------------------------------------------------
(* DockSigint: the handlers, as functions of the orchestrator's state.
   A handler takes the record of everything a handler of the interactive
   thread can change and returns the record after it has run. *)

Orch ==
    [cur |-> currentChatId, hist |-> messageHistory, chatList |-> chatList,
     view |-> view, lastLoaded |-> m_lastActiveChatLoaded,
     chatsLoaded |-> m_chatsLoaded, dbq |-> dbQueue, netq |-> netQueue,
     settings |-> settings, log |-> log]

Commit(s) ==
    /\ currentChatId' = s.cur
    /\ messageHistory' = s.hist
    /\ chatList' = s.chatList
    /\ view' = s.view
    /\ m_lastActiveChatLoaded' = s.lastLoaded
    /\ m_chatsLoaded' = s.chatsLoaded
    /\ dbQueue' = s.dbq
    /\ netQueue' = s.netq
    /\ settings' = s.settings
    /\ capture' = capture
    /\ log' = s.log

(* A history load that has been requested and whose result has not been
   applied yet. *)
LoadPending(dbq, mq) ==
    \/ \E i \in 1..Len(dbq) : dbq[i].op = "loadChatHistory"
    \/ \E i \in 1..Len(mq) : mq[i].sig = "historyLoaded"

LoadPendingFor(dbq, mq, chatId) ==
    \/ \E i \in 1..Len(dbq) :
          dbq[i].op = "loadChatHistory" /\ dbq[i].chatId = chatId
    \/ \E i \in 1..Len(mq) :
          mq[i].sig = "historyLoaded" /\ mq[i].chat = chatId

appendMessageToView(s, message, isUser) ==
    [s EXCEPT !.view = Append(@, ViewItem(message, isUser, s.cur))]

(* The message appended to the mirror and shown, without the save. *)
appendMessage_noSave(s, message, isUser) ==
    LET role == IF isUser THEN "user" ELSE "assistant"
        s1 == [s EXCEPT !.hist = Append(@, [id |-> -1, role |-> role,
                                            content |-> message])]
    IN appendMessageToView(s1, message, isUser)

appendMessage(s, message, isUser) ==
    LET role == IF isUser THEN "user" ELSE "assistant"
        s1 == [s EXCEPT !.hist = Append(@, [id |-> -1, role |-> role,
                                            content |-> message]),
                        !.dbq = Append(@, SaveReq(s.cur, role, message)),
                        !.log.saves = Append(@, SaveReq(s.cur, role, message))]
    IN appendMessageToView(s1, message, isUser)

clearChat(s) == [s EXCEPT !.view = <<>>]

(* switchToChat without the return for the chat that is active already. *)
switchToChat_always(s, chatId) ==
    LET s1 == [s EXCEPT !.cur = chatId, !.hist = <<>>]
        s2 == clearChat(s1)
    IN [s2 EXCEPT
          !.dbq = Append(@, LoadReq(chatId)),
          !.settings = saveSetting(@, LastActiveKey, NumberStr(chatId)),
          !.log.switchLoads = Append(@, chatId)]

switchToChat(s, chatId) ==
    IF chatId = s.cur THEN s
    ELSE LET s1 == [s EXCEPT !.cur = chatId, !.hist = <<>>]
             s2 == clearChat(s1)
         IN [s2 EXCEPT
               !.dbq = Append(@, LoadReq(chatId)),
               !.settings = saveSetting(@, LastActiveKey, NumberStr(chatId)),
               !.log.switchLoads = Append(@, chatId),
               !.log.overlap = /\ s.log.switchLoads # <<>>
                               /\ LoadPendingFor(s.dbq, mainQueue, s.cur)]

switchToLastActiveChat(s) ==
    IF \E i \in 1..Len(s.chatList) : s.chatList[i].id = s.cur
    THEN LET t == switchToChat(s, s.cur)
         IN [t EXCEPT !.log.coldLoads =
                 @ + (Len(t.log.switchLoads) - Len(s.log.switchLoads))]
    ELSE s

onChatsLoaded(s, loaded) ==
    LET s1 == [s EXCEPT !.chatList = loaded, !.chatsLoaded = TRUE]
    IN IF s1.lastLoaded THEN switchToLastActiveChat(s1) ELSE s1

onSettingLoaded(s, key, value) ==
    IF key = LastActiveKey /\ value # "" /\ ToInt(value) > 0
    THEN LET s1 == [s EXCEPT !.lastLoaded = TRUE, !.cur = ToInt(value)]
         IN IF s1.chatsLoaded THEN switchToLastActiveChat(s1) ELSE s1
    ELSE s

onHistoryLoaded(s, msgs, chatId) ==
    LET loaded == [i \in 1..Len(msgs) |->
                      [id |-> -1, role |-> msgs[i].role,
                       content |-> msgs[i].content]]
        shown == [i \in 1..Len(msgs) |->
                      ViewItem(msgs[i].content, msgs[i].role = "user", chatId)]
        s1 == [s EXCEPT !.hist = loaded, !.view = @ \o shown,
                        !.log.applied = chatId]
    IN IF msgs = <<>>
       THEN [s1 EXCEPT !.view = Append(@, ViewItem(PlaceholderText, FALSE, chatId))]
       ELSE s1

(* QString("Chat %1").arg(newChatNum) *)
ChatName(n) ==
    CASE n = 1 -> "Chat 1" [] n = 2 -> "Chat 2" [] n = 3 -> "Chat 3"
      [] OTHER -> "Chat 4"

(* The handler without the change of the active chat. *)
onChatCreated_noSwitch(s, chatId, name) ==
    [s EXCEPT !.chatList = Append(@, [id |-> chatId, name |-> name])]

(* The handler of DatabaseWorker::chatCreated *)
onChatCreated(s, chatId, name) ==
    LET s1 == [s EXCEPT !.chatList = Append(@, [id |-> chatId, name |-> name]),
                        !.cur = chatId, !.hist = <<>>]
        s2 == clearChat(s1)
    IN [s2 EXCEPT !.dbq = Append(@, LoadReq(chatId))]

onMessageSaved(s, id) ==
    LET s1 == [s EXCEPT !.log.acks = Append(@, id)]
    IN IF s1.hist # <<>>
       THEN [s1 EXCEPT !.hist[Len(s1.hist)].id = id]
       ELSE s1

(* The model named by the fallback of loadEnvironmentVariables. *)
CurrentModel == "claude-3-opus-20240229"

(* A .env file: whether it has an ANTHROPIC_API_KEY= line and an AI_MODEL=
   line.  NoEnvFile: no candidate path could be opened. *)
EnvFile(hasKey, hasModel) == [found |-> TRUE, key |-> hasKey, model |-> hasModel]
NoEnvFile == [found |-> FALSE, key |-> FALSE, model |-> FALSE]

EnvFiles ==
    {NoEnvFile, EnvFile(TRUE, TRUE), EnvFile(TRUE, FALSE), EnvFile(FALSE, TRUE)}

(* The two members as loadEnvironmentVariables leaves them: a member whose
   line is missing from the file keeps the empty text it was constructed
   with; the fallback is assigned only when no file was found. *)
loadEnvironmentVariables(env) ==
    IF env.found
    THEN [anthropicApiKey |-> IF env.key THEN "sk-key" ELSE "",
          currentModel |-> IF env.model THEN CurrentModel ELSE ""]
    ELSE [anthropicApiKey |-> "", currentModel |-> CurrentModel]

NoHelper == Helper(FALSE, FALSE, FALSE, 0, "-")
NoResponse == Response("-", "-")

(* The record kept of a request handed to the NetworkWorker, with the chat
   that was active when it was emitted. *)
NewRequestLog(chatId) ==
    [handled |-> FALSE, helper |-> NoHelper, posts |-> 0,
     resp |-> NoResponse, out |-> <<>>, chat |-> chatId]

PayloadOf(hist) ==
    [i \in 1..Len(hist) |->
        [role |-> IF hist[i].role = "user" THEN "user" ELSE "assistant",
         content |-> hist[i].content, parts |-> FALSE]]

sendToClaude(s, message, hasImage) ==
    IF anthropicApiKey = ""
    THEN appendMessage(s, ApiKeyErrorText, FALSE)
    ELSE LET msgs == Append(PayloadOf(s.hist),
                            [role |-> "user", content |-> message,
                             parts |-> hasImage])
             req == Len(s.log.net) + 1
         IN [s EXCEPT
               !.netq = Append(@, [apiKey |-> anthropicApiKey,
                                   model |-> currentModel,
                                   messages |-> msgs, req |-> req]),
               !.log.net = Append(@, NewRequestLog(s.cur))]

onSendClicked(s, text) ==
    IF text # ""
    THEN sendToClaude(appendMessage(s, text, TRUE), text, FALSE)
    ELSE s

onWorkerMessageReceived(s, message) == appendMessage(s, message, FALSE)

onWorkerErrorOccurred(s, error) == appendMessage(s, error, FALSE)

(* The handler with a rollback of the optimistic append. *)
onDatabaseError_rollback(s, text) ==
    [s EXCEPT !.log.debug = @ \cup {text},
              !.hist = IF @ = <<>> THEN @ ELSE SubSeq(@, 1, Len(@) - 1)]

(* The handler of DatabaseWorker::error writes the text to the debug log. *)
onDatabaseError(s, text) ==
    [s EXCEPT !.log.debug = @ \cup {text}]

-----------------------------------------------------------------------------
(* Initial states: the constructor has reached the call of loadAllChats
   (docksigint.cpp:909); both worker threads run and their queues are empty.
   The two flags are first assigned at the end of the constructor, so the
   handlers that run before that read whatever the memory holds. *)

(* The operations of the DatabaseWorker, each as a whole *)

TableNames == {"chats", "messages", "settings"}

(* A plain INSERT in place of INSERT OR IGNORE. *)
InsertOrIgnoreChat_insert(tbl, id, name) ==
    Append(tbl, [id |-> id, name |-> name])

(* INSERT OR IGNORE INTO chats (id, name): id is the primary key, so the
   statement does nothing when a row of that id exists. *)
InsertOrIgnoreChat(tbl, id, name) ==
    IF \E i \in 1..Len(tbl) : tbl[i].id = id
    THEN tbl
    ELSE Append(tbl, [id |-> id, name |-> name])

ChatCreatedEv(id, name) ==
    [sig |-> "chatCreated", id |-> id, msgs |-> NoMsgs, text |-> name,
     chat |-> 0, req |-> 0]

ChatsLoadedEv(rows) ==
    [sig |-> "chatsLoaded", id |-> 0, msgs |-> rows, text |-> "",
     chat |-> 0, req |-> 0]

SettingLoadedEv(key, value) ==
    [sig |-> "settingLoaded", id |-> 0, msgs |-> <<key>>, text |-> value,
     chat |-> 0, req |-> 0]

(* The outcome of a call: the connection, the table the call is about, the
   signals emitted and whether a write was committed. *)
Result(d, tbl, emit, committed) ==
    [db |-> d, tbl |-> tbl, emit |-> emit, committed |-> committed]

Opened(d) == [d EXCEPT !.open = TRUE]

TestOutcomes == {"ok", "openFails"}

(* The bootstrap block of the DockSigint constructor: its own connection,
   the chats and messages tables, the test chat; each statement commits on
   its own, a failure is written to the debug log only. *)
TestConnection(d, tbl, outcome) ==
    IF outcome = "openFails"
    THEN Result(d, tbl, <<>>, FALSE)
    ELSE Result([d EXCEPT !.schema = @ \cup {"chats", "messages"}],
                IF outcome = "ok"
                THEN InsertOrIgnoreChat(tbl, 1, "Test Chat")
                ELSE tbl,
                <<>>, outcome = "ok")

CtorOutcomes == {"ok", "openFails", "createFails", "defaultChatFails",
                 "commitFails"}

(* DatabaseWorker::DatabaseWorker: open, one transaction that creates the
   three tables and the default chat.  A failed statement or commit rolls
   the transaction back and leaves the connection open; no path emits a
   signal. *)
DatabaseWorker_ctor(d, tbl, outcome) ==
    CASE outcome = "openFails" ->
           Result([d EXCEPT !.open = FALSE], tbl, <<>>, FALSE)
      [] outcome = "ok" ->
           Result([open |-> TRUE, schema |-> TableNames],
                  InsertOrIgnoreChat(tbl, 1, "Chat 1"), <<>>, TRUE)
      [] OTHER ->
           Result(Opened(d), tbl, <<>>, FALSE)

SaveOutcomes == {"ok", "transactionFails", "execFails", "verifyFails",
                 "commitFails"}

(* DatabaseWorker::saveMessage.  reopen: whether db.open() succeeds when the
   connection is not open. *)
DatabaseWorker_saveMessage(d, tbl, chatId, role, content, reopen, outcome, now) ==
    IF ~d.open /\ ~reopen
    THEN Result(d, tbl, <<DbErrorEv("Database not open")>>, FALSE)
    ELSE CASE outcome = "transactionFails" ->
                Result(Opened(d), tbl,
                       <<DbErrorEv("Failed to start transaction")>>, FALSE)
           [] outcome = "execFails" \/ "messages" \notin d.schema ->
                Result(Opened(d), tbl,
                       <<DbErrorEv("Error saving message")>>, FALSE)
           [] outcome = "verifyFails" ->
                Result(Opened(d), tbl,
                       <<DbErrorEv("Failed to verify saved message")>>, FALSE)
           [] outcome = "commitFails" ->
                Result(Opened(d), tbl,
                       <<DbErrorEv("Failed to commit transaction")>>, FALSE)
           [] OTHER ->
                LET t == InsertMessage(tbl, chatId, role, content, now)
                IN Result(Opened(d), t, <<MessageSavedEv(t[Len(t)].id)>>, TRUE)

ReadOutcomes == {"ok", "execFails"}

(* DatabaseWorker::loadChatHistory; msgs: the rows in the order the SELECT
   returned them. *)
DatabaseWorker_loadChatHistory(d, tbl, msgs, chatId, reopen, outcome) ==
    IF ~d.open /\ ~reopen
    THEN Result(d, tbl, <<DbErrorEv("Database not open")>>, FALSE)
    ELSE IF outcome = "execFails" \/ "messages" \notin d.schema
         THEN Result(Opened(d), tbl,
                     <<DbErrorEv("Error loading chat history")>>, FALSE)
         ELSE Result(Opened(d), tbl, <<HistoryLoadedEv(msgs, chatId)>>, FALSE)

(* DatabaseWorker::loadAllChats *)
DatabaseWorker_loadAllChats(d, tbl, reopen, outcome) ==
    IF ~d.open /\ ~reopen
    THEN Result(d, tbl, <<DbErrorEv("Database not open")>>, FALSE)
    ELSE IF outcome = "execFails" \/ "chats" \notin d.schema
         THEN Result(Opened(d), tbl, <<DbErrorEv("Error loading chats")>>,
                     FALSE)
         ELSE Result(Opened(d), tbl, <<ChatsLoadedEv(loadAllChats(tbl))>>,
                     FALSE)

CreateOutcomes == {"ok", "execFails", "commitFails"}

(* DatabaseWorker::createChat: the results of db.transaction() and of
   db.commit() are not looked at; chatCreated is emitted whenever the INSERT
   was executed. *)
DatabaseWorker_createChat(d, tbl, name, reopen, outcome) ==
    IF ~d.open /\ ~reopen
    THEN Result(d, tbl, <<DbErrorEv("Database not open")>>, FALSE)
    ELSE CASE outcome = "execFails" \/ "chats" \notin d.schema ->
                Result(Opened(d), tbl, <<DbErrorEv("Error creating chat")>>,
                       FALSE)
           [] outcome = "commitFails" ->
                Result(Opened(d), tbl,
                       <<ChatCreatedEv(Len(tbl) + 1, name)>>, FALSE)
           [] OTHER ->
                LET t == createChat(tbl, name)
                IN Result(Opened(d), t,
                          <<ChatCreatedEv(t[Len(t)].id, name)>>, TRUE)

(* DatabaseWorker::saveSetting: nothing is emitted when the row is written. *)
DatabaseWorker_saveSetting(d, tbl, key, value, reopen, outcome) ==
    IF ~d.open /\ ~reopen
    THEN Result(d, tbl, <<DbErrorEv("Database not open")>>, FALSE)
    ELSE IF outcome = "execFails" \/ "settings" \notin d.schema
         THEN Result(Opened(d), tbl, <<DbErrorEv("Error saving setting")>>,
                     FALSE)
         ELSE Result(Opened(d), saveSetting(tbl, key, value), <<>>, TRUE)

(* DatabaseWorker::loadSetting *)
DatabaseWorker_loadSetting(d, tbl, key, reopen, outcome) ==
    IF ~d.open /\ ~reopen
    THEN Result(d, tbl, <<DbErrorEv("Database not open")>>, FALSE)
    ELSE IF outcome = "execFails" \/ "settings" \notin d.schema
         THEN Result(Opened(d), tbl, <<DbErrorEv("Error loading setting")>>,
                     FALSE)
         ELSE Result(Opened(d), tbl,
                     <<SettingLoadedEv(key, loadSetting(tbl, key))>>, FALSE)

(* A QThread object: whether start() was called on it, whether its event
   loop runs, whether quit() was called on it and whether the object has been
   destroyed. *)
Thread(started, running) ==
    [started |-> started, running |-> running, quit |-> FALSE,
     released |-> FALSE]

(* The threads when the constructor has run: the member networkThread is
   never started (the worker is moved to the QThread created at
   docksigint.cpp:661, a child object of the dock), the member
   databaseThread is started at docksigint.cpp:845. *)
ConstructedThreads ==
    [networkThread |-> Thread(FALSE, FALSE),
     localNetworkThread |-> Thread(TRUE, TRUE),
     databaseThread |-> Thread(TRUE, TRUE)]

(* The connection of the DatabaseWorker after a constructor that opened it. *)
OpenDb == [open |-> TRUE, schema |-> {"chats", "messages", "settings"}]

FreshChats == <<[id |-> 1, name |-> "Test Chat"]>>
UsedChats == <<[id |-> 1, name |-> "Test Chat"], [id |-> 2, name |-> "Chat 2"]>>
UsedMessages ==
    <<[id |-> 1, chat_id |-> 1, role |-> "assistant", content |-> WelcomeText,
       timestamp |-> 0],
      [id |-> 2, chat_id |-> 2, role |-> "user", content |-> "hola",
       timestamp |-> 0]>>

EmptySettings == {}

(* The files earlier runs left.  The third names, in last_active_chat, a
   chat that has no row: a run in which createChat's commit failed made
   that chat the active one, and a later selection of it stored its id. *)
DbImages ==
    {[chats |-> FreshChats, messages |-> <<>>, settings |-> EmptySettings]}
    \cup {[chats |-> FreshChats, messages |-> <<>>,
           settings |-> saveSetting(EmptySettings, LastActiveKey,
                                    NumberStr(2))]}
    \cup {[chats |-> UsedChats, messages |-> UsedMessages, settings |-> st] :
            st \in {EmptySettings} \cup
                   {saveSetting(EmptySettings, LastActiveKey, NumberStr(c)) :
                       c \in {1, 2}}}

InitLog(img) ==
    [switchLoads |-> <<>>, coldLoads |-> 0, overlap |-> FALSE, debug |-> {},
     lastActive0 |-> ToInt(loadSetting(img.settings, LastActiveKey)),
     rows0 |-> Len(img.messages),
     sends |-> 0, switches |-> 0, pageLoads |-> 0, dbFailures |-> 0,
     newChats |-> 0, applied |-> 0, saves |-> <<>>, acks |-> <<>>,
     net |-> <<>>,
     env |-> [found |-> FALSE, lines |-> {}],
     request |-> [headers |-> [contentType |-> "application/json",
                               xApiKey |-> "",
                               anthropicVersion |-> "2023-06-01"],
                  body |-> [model |-> "", messages |-> <<>>,
                            max_tokens |-> 4096]],
     classified |-> "-", dspChanges |-> 0, inits |-> 0, ops |-> 0, initOutcome |-> "-",
     lastOp |-> [op |-> "-", key |-> "", value |-> "", committed |-> FALSE],
     prevOp |-> [op |-> "-", key |-> "", value |-> "", committed |-> FALSE]]

Init ==
    /\ capture = SpectrumCapture(TRUE)
    /\ pc = "loadAllChats"
    /\ currentChatId = 1
    /\ messageHistory = <<>>
    /\ chatList = <<>>
    /\ view = <<>>
    /\ m_lastActiveChatLoaded \in BOOLEAN
    /\ m_chatsLoaded \in BOOLEAN
    /\ \E env \in EnvFiles :
          /\ anthropicApiKey = loadEnvironmentVariables(env).anthropicApiKey
          /\ currentModel = loadEnvironmentVariables(env).currentModel
    /\ db = OpenDb
    /\ threads = ConstructedThreads
    /\ dbQueue = <<>>
    /\ netQueue = <<>>
    /\ mainQueue = <<>>
    /\ inflight = {}
    /\ \E img \in DbImages :
          /\ chats = img.chats
          /\ messages = img.messages
          /\ settings = img.settings
          /\ log = InitLog(img)

-----------------------------------------------------------------------------
(* The tail of the constructor *)

CtorLoadAllChats ==
    /\ pc = "loadAllChats"
    /\ pc' = "loadSetting"
    /\ Commit(onChatsLoaded(Orch, loadAllChats(chats)))
    /\ UNCHANGED <<anthropicApiKey, currentModel, db, threads, mainQueue, inflight, chats, messages>>

CtorLoadSetting ==
    /\ pc = "loadSetting"
    /\ pc' = "resetFlags"
    /\ Commit(onSettingLoaded(Orch, LastActiveKey,
                              loadSetting(settings, LastActiveKey)))
    /\ UNCHANGED <<anthropicApiKey, currentModel, db, threads, mainQueue, inflight, chats, messages>>

CtorResetFlags ==
    /\ pc = "resetFlags"
    /\ pc' = "running"
    /\ m_lastActiveChatLoaded' = FALSE
    /\ m_chatsLoaded' = FALSE
    /\ UNCHANGED <<currentChatId, messageHistory, chatList, view, capture,
                   anthropicApiKey, currentModel, db, threads, dbQueue, netQueue, mainQueue, inflight,
                   chats, messages, settings, log>>

-----------------------------------------------------------------------------
(* Events of the interactive thread *)

(* The events of the user interface (page loads, selections, new chats,
   sends) handled so far. *)
UserEvents ==
    log.pageLoads + log.switches + log.newChats + log.sends + log.dspChanges

LoadFinished ==
    /\ pc = "running"
    /\ log.pageLoads < MaxPageLoads
    /\ UserEvents < MaxUserEvents
    /\ \E ok \in BOOLEAN :
          LET s0 == [Orch EXCEPT !.log.pageLoads = @ + 1]
              s1 == [s0 EXCEPT !.dbq = Append(@, LoadReq(s0.cur))]
              s2 == IF s1.hist = <<>>
                    THEN appendMessage(s1, WelcomeText, FALSE)
                    ELSE s1
          IN Commit(IF ok THEN s2 ELSE s0)
    /\ UNCHANGED <<pc, anthropicApiKey, currentModel, db, threads, mainQueue, inflight, chats, messages>>

OnChatSelected ==
    /\ pc = "running"
    /\ log.switches < MaxSwitches
    /\ UserEvents < MaxUserEvents
    /\ \E i \in 1..Len(chatList) :
          Commit(switchToChat([Orch EXCEPT !.log.switches = @ + 1],
                              chatList[i].id))
    /\ UNCHANGED <<pc, anthropicApiKey, currentModel, db, threads, mainQueue, inflight, chats, messages>>

(* createNewChat calls DatabaseWorker::createChat on the interactive thread;
   chatCreated and error are emitted on that thread and handled at once. *)
OnNewChatClicked ==
    /\ pc = "running"
    /\ log.newChats < MaxNewChats
    /\ UserEvents < MaxUserEvents
    /\ LET newChatNum == IF chatList = <<>> THEN 1
                         ELSE chatList[Len(chatList)].id + 1
           chatName == ChatName(newChatNum)
           s0 == [Orch EXCEPT !.log.newChats = @ + 1]
       IN \E outcome \in CreateOutcomes :
             LET r == DatabaseWorker_createChat(db, chats, chatName, TRUE,
                                                outcome)
                 e == r.emit[1]
                 s1 == IF outcome = "ok" THEN s0
                       ELSE [s0 EXCEPT !.log.dbFailures = @ + 1]
             IN /\ outcome # "ok" => log.dbFailures < MaxDbFailures
                /\ chats' = r.tbl
                /\ Commit(IF e.sig = "chatCreated"
                          THEN onChatCreated(s1, e.id, e.text)
                          ELSE onDatabaseError(s1, e.text))
    /\ UNCHANGED <<pc, anthropicApiKey, currentModel, db, threads, mainQueue,
                   inflight, messages>>

(* The same call while the database thread carries out a queued saveMessage
   on the same connection: the call falls between the save's INSERT and its
   commit, so the call's commit makes both rows durable, and the save's own
   commit then fails and the save reports the error. *)
OnNewChatClickedDuringSave ==
    /\ pc = "running"
    /\ log.newChats < MaxNewChats
    /\ UserEvents < MaxUserEvents
    /\ log.dbFailures < MaxDbFailures
    /\ threads.databaseThread.running
    /\ dbQueue # <<>>
    /\ Head(dbQueue).op = "saveMessage"
    /\ LET newChatNum == IF chatList = <<>> THEN 1
                         ELSE chatList[Len(chatList)].id + 1
           chatName == ChatName(newChatNum)
           s0 == [Orch EXCEPT !.log.newChats = @ + 1,
                              !.log.dbFailures = @ + 1,
                              !.dbq = Tail(@)]
       IN /\ \E now \in CurrentTimestamps(messages) :
                messages' = InsertMessage(messages, Head(dbQueue).chatId,
                                          Head(dbQueue).role,
                                          Head(dbQueue).content, now)
          /\ chats' = createChat(chats, chatName)
          /\ mainQueue' = Append(mainQueue,
                                 DbErrorEv("Failed to commit transaction"))
          /\ Commit(onChatCreated(s0, Len(chats) + 1, chatName))
    /\ UNCHANGED <<pc, anthropicApiKey, currentModel, db, threads, inflight>>

(* DockSigint::onDspStateChanged: the notice is appended as a message of
   the assistant.  dsp_running is read by the capture test only. *)
DspNotice(running) == IF running THEN "DSP started" ELSE "DSP stopped"

OnDspStateChanged ==
    /\ pc = "running"
    /\ log.dspChanges < MaxDspChanges
    /\ UserEvents < MaxUserEvents
    /\ \E running \in BOOLEAN :
          Commit(appendMessage([Orch EXCEPT !.log.dspChanges = @ + 1],
                               DspNotice(running), FALSE))
    /\ UNCHANGED <<pc, anthropicApiKey, currentModel, db, threads, mainQueue,
                   inflight, chats, messages>>

OnSendClicked ==
    /\ pc = "running"
    /\ log.sends < MaxSends
    /\ UserEvents < MaxUserEvents
    /\ \E text \in UserTexts :
          Commit(onSendClicked([Orch EXCEPT !.log.sends = @ + 1], text))
    /\ UNCHANGED <<pc, anthropicApiKey, currentModel, db, threads, mainQueue, inflight, chats, messages>>

DeliverMessageReceived ==
    /\ pc = "running"
    /\ mainQueue # <<>>
    /\ Head(mainQueue).sig = "messageReceived"
    /\ mainQueue' = Tail(mainQueue)
    /\ Commit(onWorkerMessageReceived(Orch, Head(mainQueue).text))
    /\ UNCHANGED <<pc, anthropicApiKey, currentModel, db, threads, inflight, chats, messages>>

DeliverErrorOccurred ==
    /\ pc = "running"
    /\ mainQueue # <<>>
    /\ Head(mainQueue).sig = "errorOccurred"
    /\ mainQueue' = Tail(mainQueue)
    /\ Commit(onWorkerErrorOccurred(Orch, Head(mainQueue).text))
    /\ UNCHANGED <<pc, anthropicApiKey, currentModel, db, threads, inflight, chats, messages>>

DeliverHistoryLoaded ==
    /\ pc = "running"
    /\ mainQueue # <<>>
    /\ Head(mainQueue).sig = "historyLoaded"
    /\ mainQueue' = Tail(mainQueue)
    /\ Commit(onHistoryLoaded(Orch, Head(mainQueue).msgs, Head(mainQueue).chat))
    /\ UNCHANGED <<pc, anthropicApiKey, currentModel, db, threads, inflight, chats, messages>>

DeliverMessageSaved ==
    /\ pc = "running"
    /\ mainQueue # <<>>
    /\ Head(mainQueue).sig = "messageSaved"
    /\ mainQueue' = Tail(mainQueue)
    /\ Commit(onMessageSaved(Orch, Head(mainQueue).id))
    /\ UNCHANGED <<pc, anthropicApiKey, currentModel, db, threads, inflight, chats, messages>>

DeliverDatabaseError ==
    /\ pc = "running"
    /\ mainQueue # <<>>
    /\ Head(mainQueue).sig = "error"
    /\ mainQueue' = Tail(mainQueue)
    /\ Commit(onDatabaseError(Orch, Head(mainQueue).text))
    /\ UNCHANGED <<pc, anthropicApiKey, currentModel, db, threads, inflight, chats, messages>>

-----------------------------------------------------------------------------
(* Events of the database thread *)

SaveFailureTexts == {"Error saving message"}

DbSaveMessage ==
    /\ threads.databaseThread.running
    /\ dbQueue # <<>>
    /\ Head(dbQueue).op = "saveMessage"
    /\ dbQueue' = Tail(dbQueue)
    /\ LET r == Head(dbQueue)
       IN \/ /\ \E now \in CurrentTimestamps(messages) :
                   messages' = InsertMessage(messages, r.chatId, r.role,
                                             r.content, now)
             /\ mainQueue' = Append(mainQueue,
                                    MessageSavedEv(messages'[Len(messages')].id))
             /\ log' = log
          \/ /\ log.dbFailures < MaxDbFailures
             /\ \E e \in SaveFailureTexts :
                   mainQueue' = Append(mainQueue, DbErrorEv(e))
             /\ messages' = messages
             /\ log' = [log EXCEPT !.dbFailures = @ + 1]
    /\ UNCHANGED <<pc, currentChatId, messageHistory, chatList, view, capture,
                   m_lastActiveChatLoaded, m_chatsLoaded, anthropicApiKey, currentModel, db, threads,
                   netQueue, inflight, chats, settings>>

DbLoadChatHistory ==
    /\ threads.databaseThread.running
    /\ dbQueue # <<>>
    /\ Head(dbQueue).op = "loadChatHistory"
    /\ dbQueue' = Tail(dbQueue)
    /\ \E msgs \in loadChatHistory(messages, Head(dbQueue).chatId) :
          mainQueue' = Append(mainQueue,
                              HistoryLoadedEv(msgs, Head(dbQueue).chatId))
    /\ UNCHANGED <<pc, currentChatId, messageHistory, chatList, view, capture,
                   m_lastActiveChatLoaded, m_chatsLoaded, anthropicApiKey, currentModel, db, threads,
                   netQueue, inflight, chats, messages, settings, log>>

-----------------------------------------------------------------------------
(* Events of the network thread *)

SigsOf(evs) == [i \in 1..Len(evs) |-> [sig |-> evs[i].sig, text |-> evs[i].text]]

NetSendMessage(Helpers) ==
    /\ threads.localNetworkThread.running
    /\ ~threads.localNetworkThread.released
    /\ netQueue # <<>>
    /\ netQueue' = Tail(netQueue)
    /\ \E h \in Helpers :
          LET r == Head(netQueue)
              res == sendMessage(r.apiKey, r.model, r.messages, h, r.req)
          IN /\ mainQueue' = mainQueue \o res.emit
             /\ inflight' = IF res.post > 0 THEN inflight \cup {r.req}
                                              ELSE inflight
             /\ log' = [log EXCEPT !.net[r.req].handled = TRUE,
                                    !.net[r.req].helper = h,
                                    !.net[r.req].posts = @ + res.post,
                                    !.net[r.req].out = @ \o SigsOf(res.emit)]
    /\ UNCHANGED <<pc, currentChatId, messageHistory, chatList, view, capture,
                   m_lastActiveChatLoaded, m_chatsLoaded, anthropicApiKey, currentModel, db, threads,
                   dbQueue, chats, messages, settings>>

NetReplyFinished(Responses) ==
    /\ threads.localNetworkThread.running
    /\ ~threads.localNetworkThread.released
    /\ \E req \in inflight, r \in Responses :
          LET evs == replyFinished(r, req)
          IN /\ inflight' = inflight \ {req}
             /\ mainQueue' = mainQueue \o evs
             /\ log' = [log EXCEPT !.net[req].resp = r,
                                    !.net[req].out = @ \o SigsOf(evs)]
    /\ UNCHANGED <<pc, currentChatId, messageHistory, chatList, view, capture,
                   m_lastActiveChatLoaded, m_chatsLoaded, anthropicApiKey, currentModel, db, threads,
                   dbQueue, netQueue, chats, messages, settings>>

-----------------------------------------------------------------------------

Next ==
    \/ CtorLoadAllChats
    \/ CtorLoadSetting
    \/ CtorResetFlags
    \/ LoadFinished
    \/ OnChatSelected
    \/ OnNewChatClicked
    \/ DeliverHistoryLoaded
    \/ DeliverMessageSaved
    \/ DeliverDatabaseError
    \/ OnSendClicked
    \/ OnDspStateChanged
    \/ DeliverMessageReceived
    \/ DeliverErrorOccurred
    \/ DbSaveMessage
    \/ DbLoadChatHistory
    \/ NetSendMessage(WorkingHelpers)
    \/ NetReplyFinished(UsualResponses)

Spec == Init /\ [][Next]_vars

-----------------------------------------------------------------------------
(* The orchestrator and the DatabaseWorker when no credential is configured:
   no request reaches the network thread, so its handlers never run. *)

InitStore ==
    /\ Init
    /\ anthropicApiKey = ""

NextStore ==
    \/ CtorLoadAllChats
    \/ CtorLoadSetting
    \/ CtorResetFlags
    \/ LoadFinished
    \/ OnChatSelected
    \/ OnNewChatClicked
    \/ OnSendClicked
    \/ OnDspStateChanged
    \/ DeliverHistoryLoaded
    \/ DeliverMessageSaved
    \/ DeliverDatabaseError
    \/ DbSaveMessage
    \/ DbLoadChatHistory

SpecStore == InitStore /\ [][NextStore]_vars

(* The same, with the calls that the interactive thread makes on the
   connection while the database thread is using it. *)
NextRace ==
    \/ CtorLoadAllChats
    \/ CtorLoadSetting
    \/ CtorResetFlags
    \/ LoadFinished
    \/ OnChatSelected
    \/ OnNewChatClicked
    \/ OnNewChatClickedDuringSave
    \/ OnSendClicked
    \/ OnDspStateChanged
    \/ DeliverHistoryLoaded
    \/ DeliverMessageSaved
    \/ DeliverDatabaseError
    \/ DbSaveMessage
    \/ DbLoadChatHistory

SpecRace == InitStore /\ [][NextRace]_vars

-----------------------------------------------------------------------------
(* The orchestrator with a credential and the NetworkWorker: turns are
   submitted and their outcomes arrive.  The saves are issued and stay in
   the queue of the database thread, which does not get to run; the user
   selects no other chat and the page is not reloaded. *)

InitTurn ==
    /\ Init
    /\ anthropicApiKey # ""

NextTurn ==
    \/ CtorLoadAllChats
    \/ CtorLoadSetting
    \/ CtorResetFlags
    \/ OnSendClicked
    \/ DeliverMessageReceived
    \/ DeliverErrorOccurred
    \/ NetSendMessage(WorkingHelpers)
    \/ NetReplyFinished(UsualResponses)

SpecTurn == InitTurn /\ [][NextTurn]_vars

-----------------------------------------------------------------------------
(* Teardown *)

(* quit() followed by wait() on a QThread: a running event loop exits after
   the event it is handling, events still queued are not handled. *)
QuitAndWait(t) == [t EXCEPT !.quit = TRUE, !.running = FALSE]

(* The QThread object is destroyed, whatever its thread is doing. *)
Release(t) == [t EXCEPT !.released = TRUE]

(* DockSigint::~DockSigint: quit and wait on the two member threads, then
   the members and the child objects are destroyed.  The thread that runs
   the NetworkWorker is the child object created in the constructor, which
   the destructor does not name. *)
Destructor ==
    /\ pc = "running"
    /\ pc' = "destroyed"
    /\ threads' =
          [networkThread |-> Release(QuitAndWait(threads.networkThread)),
           databaseThread |-> Release(QuitAndWait(threads.databaseThread)),
           localNetworkThread |-> Release(threads.localNetworkThread)]
    /\ UNCHANGED <<currentChatId, messageHistory, chatList, view, capture,
                   m_lastActiveChatLoaded, m_chatsLoaded, anthropicApiKey,
                   currentModel, db, dbQueue, netQueue, mainQueue, inflight,
                   chats, messages, settings, log>>

NextTeardown ==
    \/ CtorLoadAllChats
    \/ CtorLoadSetting
    \/ CtorResetFlags
    \/ LoadFinished
    \/ OnChatSelected
    \/ OnNewChatClicked
    \/ OnSendClicked
    \/ OnDspStateChanged
    \/ DeliverHistoryLoaded
    \/ DeliverMessageSaved
    \/ DeliverDatabaseError
    \/ DbSaveMessage
    \/ DbLoadChatHistory
    \/ Destructor

SpecTeardown == InitStore /\ [][NextTeardown]_vars

-----------------------------------------------------------------------------
(* The NetworkWorker on its own: the orchestrator is the environment that
   emits sendMessageToWorker, and the signals of the worker stay queued to
   the interactive thread. *)

MaxRequests == 2     \* requests handed to the NetworkWorker in one run

Payloads ==
    {<<[role |-> "user", content |-> "hello", parts |-> FALSE]>>,
     <<[role |-> "user", content |-> "hello", parts |-> FALSE],
       [role |-> "assistant", content |-> "hi there", parts |-> FALSE],
       [role |-> "user", content |-> "tune to 100 MHz", parts |-> FALSE]>>}

FreshImage ==
    [chats |-> FreshChats, messages |-> <<>>, settings |-> EmptySettings]

InitNet ==
    /\ capture = SpectrumCapture(TRUE)
    /\ pc = "running"
    /\ currentChatId = 1
    /\ messageHistory = <<>>
    /\ chatList = loadAllChats(FreshChats)
    /\ view = <<>>
    /\ m_lastActiveChatLoaded = FALSE
    /\ m_chatsLoaded = FALSE
    /\ anthropicApiKey = loadEnvironmentVariables(EnvFile(TRUE, TRUE)).anthropicApiKey
    /\ currentModel = loadEnvironmentVariables(EnvFile(TRUE, TRUE)).currentModel
    /\ db = OpenDb
    /\ threads = ConstructedThreads
    /\ dbQueue = <<>>
    /\ netQueue = <<>>
    /\ mainQueue = <<>>
    /\ inflight = {}
    /\ chats = FreshImage.chats
    /\ messages = FreshImage.messages
    /\ settings = FreshImage.settings
    /\ log = InitLog(FreshImage)

EmitSendMessageToWorker ==
    /\ Len(log.net) < MaxRequests
    /\ \E msgs \in Payloads :
          /\ netQueue' = Append(netQueue,
                [apiKey |-> anthropicApiKey, model |-> currentModel,
                 messages |-> msgs, req |-> Len(log.net) + 1])
          /\ log' = [log EXCEPT !.net =
                         Append(@, NewRequestLog(currentChatId))]
    /\ UNCHANGED <<pc, currentChatId, messageHistory, chatList, view, capture,
                   m_lastActiveChatLoaded, m_chatsLoaded, anthropicApiKey, currentModel, db, threads,
                   dbQueue, mainQueue, inflight, chats, messages, settings>>

NextNet ==
    \/ EmitSendMessageToWorker
    \/ NetSendMessage(AllHelpers)
    \/ NetReplyFinished(AllResponses)

SpecNet == InitNet /\ [][NextNet]_vars

(* The network thread's event loop handles every queued event, and every
   QNetworkReply finishes (with a result or with a transport error). *)
FairSpecNet ==
    /\ SpecNet
    /\ WF_vars(NetSendMessage(AllHelpers))
    /\ WF_vars(NetReplyFinished(AllResponses))

-----------------------------------------------------------------------------
(* The store on its own: the bootstrap block and the DatabaseWorker's
   constructor initialise the file, the operations of the DatabaseWorker
   are then called with inputs of the environment, and the program may be
   started again on the file it left. *)

MaxInits == 1        \* times the program is started again on its file
MaxStoreOps == 2     \* operations of the DatabaseWorker called over the runs

(* What the environment observed of a call: its name, the key and value of
   a setting it was about, and whether it committed a write. *)
Op(name, key, value, committed) ==
    [op |-> name, key |-> key, value |-> value, committed |-> committed]

NoOp == Op("-", "", "", FALSE)

(* A database file that was never opened, and the files earlier runs left. *)
EmptyFile == [chats |-> <<>>, messages |-> <<>>, settings |-> EmptySettings]

ClosedDb(schema) == [open |-> FALSE, schema |-> schema]

InitDb ==
    /\ capture = SpectrumCapture(TRUE)
    /\ pc = "TestConnection"
    /\ currentChatId = 1
    /\ messageHistory = <<>>
    /\ chatList = <<>>
    /\ view = <<>>
    /\ m_lastActiveChatLoaded = FALSE
    /\ m_chatsLoaded = FALSE
    /\ anthropicApiKey = ""
    /\ currentModel = ""
    /\ threads = ConstructedThreads
    /\ dbQueue = <<>>
    /\ netQueue = <<>>
    /\ mainQueue = <<>>
    /\ inflight = {}
    /\ \E img \in {EmptyFile} \cup DbImages :
          /\ db = ClosedDb(IF img = EmptyFile THEN {} ELSE TableNames)
          /\ chats = img.chats
          /\ messages = img.messages
          /\ settings = img.settings
          /\ log = InitLog(img)

StoreUnchanged ==
    UNCHANGED <<currentChatId, messageHistory, chatList, view, capture,
                m_lastActiveChatLoaded, m_chatsLoaded, anthropicApiKey,
                currentModel, threads, dbQueue, netQueue, inflight>>

DbTestConnection ==
    /\ pc = "TestConnection"
    /\ pc' = "DatabaseWorker"
    /\ \E outcome \in TestOutcomes :
          LET r == TestConnection(db, chats, outcome)
          IN /\ db' = r.db
             /\ chats' = r.tbl
    /\ StoreUnchanged
    /\ UNCHANGED <<mainQueue, messages, settings, log>>

DbDatabaseWorker ==
    /\ pc = "DatabaseWorker"
    /\ pc' = "ready"
    /\ \E outcome \in CtorOutcomes :
          LET r == DatabaseWorker_ctor(db, chats, outcome)
          IN /\ db' = r.db
             /\ chats' = r.tbl
             /\ mainQueue' = mainQueue \o r.emit
             /\ log' = [log EXCEPT !.initOutcome = outcome]
    /\ StoreUnchanged
    /\ UNCHANGED <<messages, settings>>

(* The process ends and the program is started again on the same file. *)
DbRestart ==
    /\ pc = "ready"
    /\ log.inits < MaxInits
    /\ pc' = "TestConnection"
    /\ db' = [db EXCEPT !.open = FALSE]
    /\ mainQueue' = <<>>
    /\ log' = [log EXCEPT !.inits = @ + 1, !.initOutcome = "-"]
    /\ StoreUnchanged
    /\ UNCHANGED <<chats, messages, settings>>

StoreChatIds == {1, 2}
StoreMessages == {[role |-> "user", content |-> "hello"],
                  [role |-> "assistant", content |-> "hi there"]}
SettingKeys == {LastActiveKey, "theme"}
SettingValues == {"1", "2"}

(* db.open() is called only when the connection is not open. *)
Reopens == IF db.open THEN {TRUE} ELSE BOOLEAN

CallReady ==
    /\ pc = "ready"
    /\ log.ops < MaxStoreOps

(* The receiver has handled the signals of the calls before this one. *)
Called(r, op) ==
    /\ pc' = pc
    /\ db' = r.db
    /\ mainQueue' = r.emit
    /\ log' = [log EXCEPT !.ops = @ + 1, !.prevOp = log.lastOp, !.lastOp = op]
    /\ StoreUnchanged

StoreSaveMessage ==
    /\ CallReady
    /\ \E m \in StoreMessages, reopen \in Reopens, outcome \in SaveOutcomes,
          now \in CurrentTimestamps(messages) :
          LET chatId == 1
              r == DatabaseWorker_saveMessage(db, messages, chatId, m.role,
                                              m.content, reopen, outcome, now)
          IN /\ messages' = r.tbl
             /\ Called(r, Op("saveMessage", m.role, m.content, r.committed))
    /\ UNCHANGED <<chats, settings>>

StoreLoadChatHistory ==
    /\ CallReady
    /\ \E chatId \in StoreChatIds, reopen \in Reopens,
          outcome \in ReadOutcomes :
        \E msgs \in loadChatHistory(messages, chatId) :
          Called(DatabaseWorker_loadChatHistory(db, messages, msgs, chatId,
                                                reopen, outcome),
                 Op("loadChatHistory", "", "", FALSE))
    /\ UNCHANGED <<chats, messages, settings>>

StoreLoadAllChats ==
    /\ CallReady
    /\ \E reopen \in Reopens, outcome \in ReadOutcomes :
          Called(DatabaseWorker_loadAllChats(db, chats, reopen, outcome),
                 Op("loadAllChats", "", "", FALSE))
    /\ UNCHANGED <<chats, messages, settings>>

StoreCreateChat ==
    /\ CallReady
    /\ \E reopen \in Reopens, outcome \in CreateOutcomes :
          LET name == ChatName(Len(chats) + 1)
              r == DatabaseWorker_createChat(db, chats, name, reopen, outcome)
          IN /\ chats' = r.tbl
             /\ Called(r, Op("createChat", "", name, r.committed))
    /\ UNCHANGED <<messages, settings>>

StoreSaveSetting ==
    /\ CallReady
    /\ \E key \in SettingKeys, value \in SettingValues, reopen \in Reopens,
          outcome \in ReadOutcomes :
          LET r == DatabaseWorker_saveSetting(db, settings, key, value,
                                              reopen, outcome)
          IN /\ settings' = r.tbl
             /\ Called(r, Op("saveSetting", key, value, r.committed))
    /\ UNCHANGED <<chats, messages>>

StoreLoadSetting ==
    /\ CallReady
    /\ \E key \in SettingKeys, reopen \in Reopens, outcome \in ReadOutcomes :
          Called(DatabaseWorker_loadSetting(db, settings, key, reopen,
                                            outcome),
                 Op("loadSetting", key, "", FALSE))
    /\ UNCHANGED <<chats, messages, settings>>

NextDb ==
    \/ DbTestConnection
    \/ DbDatabaseWorker
    \/ DbRestart
    \/ StoreSaveMessage
    \/ StoreLoadChatHistory
    \/ StoreLoadAllChats
    \/ StoreCreateChat
    \/ StoreSaveSetting
    \/ StoreLoadSetting

SpecDb == InitDb /\ [][NextDb]_vars

-----------------------------------------------------------------------------
(* The credential on its way from the .env file to the outbound request: the
   file is read by loadEnvironmentVariables, read again for the environment
   of the classifier's process, and the request is built by sendMessage.
   The debug log is the set of the lines written. *)

KeyName == "ANTHROPIC_API_KEY"
ModelName == "AI_MODEL"
TokenName == "HF_TOKEN"

(* Values of the credential: two of one length and one that is longer. *)
Credentials == {"sk-key", "sk-yek", "sk-key-2"}
TokenValues == {"hf-secret", "hf-terces"}

(* The lines NAME=value of a .env file. *)
EnvLinesSets ==
    {ks \cup ms \cup ts :
        ks \in {{}} \cup {{[name |-> KeyName, value |-> k]} : k \in Credentials},
        ms \in {{}, {[name |-> ModelName, value |-> CurrentModel]}},
        ts \in {{}} \cup {{[name |-> TokenName, value |-> t]} : t \in TokenValues}}

DotEnvFiles ==
    {[found |-> FALSE, lines |-> {}]}
    \cup {[found |-> TRUE, lines |-> ls] : ls \in EnvLinesSets}

ValueOf(file, name) ==
    IF \E l \in file.lines : l.name = name
    THEN (CHOOSE l \in file.lines : l.name = name).value
    ELSE ""

(* A line of the debug log: its fixed text, and the text and the number
   that are streamed after it. *)
DebugLine(text, arg, num) == [text |-> text, arg |-> arg, num |-> num]

(* The members that loadEnvironmentVariables leaves for a file with the
   lines given, as loadEnvironmentVariables(env) does for a file that is
   only known to hold a line or not. *)
EnvMembers(file) ==
    IF file.found
    THEN [anthropicApiKey |-> ValueOf(file, KeyName),
          currentModel |-> ValueOf(file, ModelName)]
    ELSE [anthropicApiKey |-> "", currentModel |-> CurrentModel]

(* The lines that loadEnvironmentVariables and the end of the constructor
   write about the credential and the model. *)
EnvDebug(file) ==
    (IF file.found /\ \E l \in file.lines : l.name = KeyName
     THEN {DebugLine("API key found, length:", "",
                     Len(ValueOf(file, KeyName)))}
     ELSE {})
    \cup (IF file.found /\ \E l \in file.lines : l.name = ModelName
          THEN {DebugLine("Model found:", ValueOf(file, ModelName), 0)}
          ELSE {})
    \cup {DebugLine("API Key status:",
                    IF EnvMembers(file).anthropicApiKey # "" THEN "Found"
                    ELSE "Missing", 0)}

(* key.contains("KEY") for the names above *)
ContainsKEY(name) == name \in {KeyName}

(* key.contains("KEY") ? "***" : value *)
Redacted(name, value) == IF ContainsKEY(name) THEN "***" ELSE value

(* The lines analyzeTuningRequest writes while it copies the pairs of the
   .env file into the environment of the classifier's process. *)
HelperEnvDebug(file) ==
    {DebugLine("Setting env var:", Redacted(l.name, l.value), 0) :
        l \in file.lines}

(* The request sendMessage posts. *)
OutboundRequest(apiKey, model, msgs) ==
    [headers |-> [contentType |-> "application/json", xApiKey |-> apiKey,
                  anthropicVersion |-> "2023-06-01"],
     body |-> [model |-> model, messages |-> msgs, max_tokens |-> 4096]]

(* The lines sendMessage writes. *)
SendDebug(model, msgs) ==
    {DebugLine("Message content:", latestMessage(msgs), 0),
     DebugLine("  - Model:", model, 0),
     DebugLine("  - Messages:", "", Len(msgs))}

AnalysisPrompt == "Please analyze this waterfall signal data"

(* The messages sendToClaude builds: the mirror, then the current message,
   as plain text or, with image data, as an image block and a text block. *)
EnvPayloads ==
    {Append(PayloadOf(hist),
            [role |-> "user", content |-> message, parts |-> hasImage]) :
        hist \in {<<>>, <<[id |-> -1, role |-> "user", content |-> "hello"],
                          [id |-> -1, role |-> "assistant",
                           content |-> "hi there"]>>},
        message \in {"hello", AnalysisPrompt},
        hasImage \in BOOLEAN}

InitEnv ==
    /\ capture = SpectrumCapture(TRUE)
    /\ pc = "loadEnvironmentVariables"
    /\ currentChatId = 1
    /\ messageHistory = <<>>
    /\ chatList = <<>>
    /\ view = <<>>
    /\ m_lastActiveChatLoaded = FALSE
    /\ m_chatsLoaded = FALSE
    /\ anthropicApiKey = ""
    /\ currentModel = ""
    /\ db = OpenDb
    /\ threads = ConstructedThreads
    /\ dbQueue = <<>>
    /\ netQueue = <<>>
    /\ mainQueue = <<>>
    /\ inflight = {}
    /\ chats = FreshImage.chats
    /\ messages = FreshImage.messages
    /\ settings = FreshImage.settings
    /\ \E file \in DotEnvFiles :
          log = [InitLog(FreshImage) EXCEPT !.env = file]

EnvUnchanged ==
    UNCHANGED <<currentChatId, messageHistory, chatList, view, capture,
                m_lastActiveChatLoaded, m_chatsLoaded, db, threads, dbQueue,
                netQueue, mainQueue, inflight, chats, messages, settings>>

EnvLoad ==
    /\ pc = "loadEnvironmentVariables"
    /\ pc' = "sendToClaude"
    /\ anthropicApiKey' = EnvMembers(log.env).anthropicApiKey
    /\ currentModel' = EnvMembers(log.env).currentModel
    /\ log' = [log EXCEPT !.debug = @ \cup EnvDebug(log.env)]
    /\ EnvUnchanged

(* sendToClaude hands the credential, the model and the messages to the
   NetworkWorker when the credential is not empty. *)
EnvSendToClaude ==
    /\ pc = "sendToClaude"
    /\ anthropicApiKey # ""
    /\ pc' = "analyzeTuningRequest"
    /\ \E msgs \in EnvPayloads :
          log' = [log EXCEPT !.request =
                     OutboundRequest("", currentModel, msgs)]
    /\ UNCHANGED <<anthropicApiKey, currentModel>>
    /\ EnvUnchanged

EnvAnalyzeTuningRequest ==
    /\ pc = "analyzeTuningRequest"
    /\ pc' = "post"
    /\ log' = [log EXCEPT
                 !.classified = latestMessage(log.request.body.messages),
                 !.debug = @ \cup HelperEnvDebug(log.env)]
    /\ UNCHANGED <<anthropicApiKey, currentModel>>
    /\ EnvUnchanged

EnvPost ==
    /\ pc = "post"
    /\ pc' = "posted"
    /\ log' = [log EXCEPT
                 !.request = OutboundRequest(anthropicApiKey, currentModel,
                                             log.request.body.messages),
                 !.debug = @ \cup SendDebug(currentModel,
                                           log.request.body.messages)]
    /\ UNCHANGED <<anthropicApiKey, currentModel>>
    /\ EnvUnchanged

NextEnv ==
    \/ EnvLoad
    \/ EnvSendToClaude
    \/ EnvAnalyzeTuningRequest
    \/ EnvPost

SpecEnv == InitEnv /\ [][NextEnv]_vars

-----------------------------------------------------------------------------
(* The SpectrumCapture object and its callers: captureRange and stop are
   called from the interactive thread, at top level or from a slot that runs
   inside an emit of the object; the rest of the program stands still. *)

Ranges ==
    {CaptureRange(1, 2, 4, 1),      \* accepted
     CaptureRange(2, 2, 4, 1),      \* start_freq not below end_freq
     CaptureRange(1, 2, 4, 3),      \* sample rate above the receiver's
     CaptureRange(1, 2, 3, 1)}      \* FFT size no power of two

InitCapture ==
    /\ \E rx \in BOOLEAN : capture = SpectrumCapture(rx)
    /\ pc = "running"
    /\ currentChatId = 1
    /\ messageHistory = <<>>
    /\ chatList = loadAllChats(FreshChats)
    /\ view = <<>>
    /\ m_lastActiveChatLoaded = FALSE
    /\ m_chatsLoaded = FALSE
    /\ anthropicApiKey = ""
    /\ currentModel = CurrentModel
    /\ db = OpenDb
    /\ threads = ConstructedThreads
    /\ dbQueue = <<>>
    /\ netQueue = <<>>
    /\ mainQueue = <<>>
    /\ inflight = {}
    /\ chats = FreshImage.chats
    /\ messages = FreshImage.messages
    /\ settings = FreshImage.settings
    /\ log = InitLog(FreshImage)

CaptureUnchanged ==
    UNCHANGED <<pc, currentChatId, messageHistory, chatList, view,
                m_lastActiveChatLoaded, m_chatsLoaded, anthropicApiKey,
                currentModel, db, threads, dbQueue, netQueue, mainQueue,
                inflight, chats, messages, settings, log>>

CallCaptureRange ==
    /\ capture.calls < MaxCaptureCalls
    /\ Len(capture.stack) < MaxCaptureDepth
    /\ \E range \in Ranges : capture' = captureRange(capture, range)
    /\ CaptureUnchanged

SlotsReturn ==
    /\ capture.stack # <<>>
    /\ \E prepared \in PrepareOutcomes, extracted \in ExtractOutcomes :
          capture' = captureRange_resume(capture, prepared, extracted)
    /\ CaptureUnchanged

CallStop ==
    /\ capture.stops < MaxStops
    /\ capture' = stop([capture EXCEPT !.stops = @ + 1])
    /\ CaptureUnchanged

NextCapture ==
    \/ CallCaptureRange
    \/ SlotsReturn
    \/ CallStop

SpecCapture == InitCapture /\ [][NextCapture]_vars

-----------------------------------------------------------------------------
(* Properties *)

HistoryLoadedAtHead ==
    /\ pc = "running"
    /\ mainQueue # <<>>
    /\ Head(mainQueue).sig = "historyLoaded"

\* C1: a historyLoaded result that was read for a chat id other than the
\* active one (the chat was superseded by a later switch) is discarded: the
\* handler that takes it from the queue leaves the mirror as it was.
C1_SupersededLoadDiscarded ==
    [][(/\ HistoryLoadedAtHead
        /\ Head(mainQueue).chat # currentChatId
        /\ mainQueue' = Tail(mainQueue))
       => messageHistory' = messageHistory]_vars

RowsOfChat(chatId) == SelectSeq2(messages, chatId)

\* C2: after a switch to chat A and a switch to chat B made while A's
\* history load was still undelivered, once no load is outstanding the view
\* shows chat B's messages and none of chat A's.
C2_ViewShowsOnlyLastChat ==
    (/\ pc = "running"
     /\ Len(log.switchLoads) >= 2
     /\ log.overlap
     /\ ~LoadPending(dbQueue, mainQueue))
    => /\ \A i \in 1..Len(view) : view[i].chat = currentChatId
       /\ \A j \in 1..Len(RowsOfChat(currentChatId)) :
             \E i \in 1..Len(view) :
                view[i].content = RowsOfChat(currentChatId)[j].content

ChatExists(chatId) == \E i \in 1..Len(chats) : chats[i].id = chatId

\* C3: cold start with last_active_chat naming an existing chat k (k other
\* than the id the constructor starts with): when the chat list and the
\* setting have both arrived, the switch to k has been performed exactly
\* once, that is, it issued exactly one history load.
C3_ColdStartSwitchesOnce ==
    (/\ pc \in {"resetFlags", "running"}
     /\ log.lastActive0 > 1
     /\ ChatExists(log.lastActive0))
    => log.coldLoads = 1

Drained ==
    /\ dbQueue = <<>>
    /\ netQueue = <<>>
    /\ mainQueue = <<>>
    /\ inflight = {}

NoFailure ==
    /\ log.dbFailures = 0
    /\ anthropicApiKey # ""
    /\ \A r \in 1..Len(log.net) :
          \A i \in 1..Len(log.net[r].out) :
             log.net[r].out[i].sig # "errorOccurred"

SessionRows == SubSeq(messages, log.rows0 + 1, Len(messages))

\* C4: N user turns sent in one chat, nothing failed, all queues drained:
\* the rows stored in this session are exactly 2N rows of that chat, a user
\* row followed by an assistant row for each turn, in submission order.
C4_TwoRowsPerTurn ==
    (/\ pc = "running"
     /\ Drained
     /\ NoFailure
     /\ log.switches = 0
     /\ log.sends >= 1)
    => /\ Len(SessionRows) = 2 * log.sends
       /\ \A k \in 1..Len(SessionRows) :
             /\ SessionRows[k].chat_id = currentChatId
             /\ SessionRows[k].role = IF k % 2 = 1 THEN "user" ELSE "assistant"

\* C10: a persistence error taken from the queue by the orchestrator is
\* appended to the transcript (one more item in the view, holding the error
\* text) and written to the debug log.
C10_DbErrorSurfaced ==
    [][(/\ pc = "running"
        /\ mainQueue # <<>>
        /\ Head(mainQueue).sig = "error"
        /\ mainQueue' = Tail(mainQueue))
       => /\ Head(mainQueue).text \in log'.debug
          /\ Len(view') = Len(view) + 1
          /\ view'[Len(view')].content = Head(mainQueue).text]_vars

-----------------------------------------------------------------------------
(* Properties of the NetworkWorker *)

Requests == 1..Len(log.net)

(* The helper ran to the end and printed requires_tuning = "true". *)
ReportsTuning(h) ==
    h.tmp /\ h.started /\ h.finished /\ h.stdout = JsonTuningTrue

\* C5: when the classifier reports requires_tuning = "true" for the newest
\* user turn, sendMessage emits the canned acknowledgement as its one result
\* and posts no HTTP request for that turn.
C5_TuningBypassesRemote ==
    \A r \in Requests :
       (log.net[r].handled /\ ReportsTuning(log.net[r].helper))
       => /\ log.net[r].posts = 0
          /\ r \notin inflight
          /\ log.net[r].out = <<[sig |-> "messageReceived", text |-> CannedAck]>>

C5_Witness ==
    \E r \in Requests :
       /\ log.net[r].handled
       /\ ReportsTuning(log.net[r].helper)
       /\ log.net[r].posts = 0
       /\ Len(log.net[r].out) = 1

(* The classification step failed: no script, no start, no finish within
   the wait, a non-zero exit, or output that is no JSON object holding the
   field. *)
ClassifierFailed(h) ==
    \/ ~h.tmp
    \/ ~h.started
    \/ ~h.finished
    \/ h.exit # 0
    \/ h.stdout \in {NotJsonOut, EmptyOut, JsonNoField}

\* C6: every failure of the classification step is inconclusive: sendMessage
\* posts exactly one HTTP request for the turn and emits no signal of its own.
C6_ClassifierFailureFallsThrough ==
    \A r \in Requests :
       (log.net[r].handled /\ ClassifierFailed(log.net[r].helper))
       => /\ log.net[r].posts = 1
          /\ \A i \in 1..Len(log.net[r].out) :
                log.net[r].out[i].text # CannedAck

TransportFailed(r) ==
    log.net[r].resp # NoResponse /\ log.net[r].resp.error # "NoError"

ShapeError(r) ==
    /\ log.net[r].resp.error = "NoError"
    /\ log.net[r].resp.body = BodyNoContent

\* C8: the outcome of a transport failure and the outcome of a successful
\* response without a content field are signals of different kinds.
C8_ErrorKindsDiffer ==
    \A r1, r2 \in Requests :
       (TransportFailed(r1) /\ ShapeError(r2))
       => log.net[r1].out[1].sig # log.net[r2].out[1].sig

(* A successful response whose first text block is absent. *)
FirstTextAbsent(r) ==
    /\ log.net[r].resp.error = "NoError"
    /\ log.net[r].resp.body
          \in {BodyNoContent, BodyEmptyContent, BodyNoText}

\* C9: on a successful response the result is the text of the first element
\* of the content array; when that text block is absent the outcome is the
\* protocol-shape error and never a text result.
C9_AbsentTextIsShapeError ==
    \A r \in Requests :
       /\ (log.net[r].resp = Response("NoError", BodyText))
          => log.net[r].out = <<[sig |-> "messageReceived", text |-> "hi there"]>>
       /\ FirstTextAbsent(r)
          => log.net[r].out = <<[sig |-> "errorOccurred", text |-> ShapeErrorText]>>

-----------------------------------------------------------------------------
(* Properties of the mirror *)

DbErrorAtHead ==
    /\ pc = "running"
    /\ mainQueue # <<>>
    /\ Head(mainQueue).sig = "error"

\* C11: a failed save leaves the mirror as it was: neither the step of the
\* database thread that fails and queues the error, nor the step of the
\* orchestrator that takes the error from the queue, removes, reorders or
\* changes a mirror entry (the optimistically appended message stays).
C11_FailedSaveKeepsMirror ==
    [][/\ (DbErrorAtHead /\ mainQueue' = Tail(mainQueue))
          => messageHistory' = messageHistory
       /\ (/\ Len(mainQueue') = Len(mainQueue) + 1
           /\ mainQueue'[Len(mainQueue')].sig = "error")
          => messageHistory' = messageHistory]_vars

C11_Witness ==
    /\ log.debug \cap SaveFailureTexts # {}
    /\ log.dbFailures > 0
    /\ dbQueue = <<>>
    /\ mainQueue = <<>>
    /\ \E i \in 1..Len(messageHistory) : messageHistory[i].id = -1

ErrorOccurredAtHead ==
    /\ pc = "running"
    /\ mainQueue # <<>>
    /\ Head(mainQueue).sig = "errorOccurred"

\* C12: when a generation error is taken from the queue, one assistant
\* message holding the error text is appended at the end of the mirror,
\* after the user turn of the request that caused it (the mirror is the one
\* of the chat the turn was sent in and holds that turn), one save is issued
\* for it, and no earlier mirror entry changes.
C12_GenerationErrorAppended ==
    [][(ErrorOccurredAtHead /\ mainQueue' = Tail(mainQueue))
       => LET e == Head(mainQueue)
          IN /\ messageHistory' =
                   Append(messageHistory,
                          [id |-> -1, role |-> "assistant", content |-> e.text])
             /\ dbQueue' = Append(dbQueue,
                                  SaveReq(currentChatId, "assistant", e.text))
             /\ currentChatId = log.net[e.req].chat
             /\ \E i \in 1..Len(messageHistory) :
                   /\ messageHistory[i].role = "user"
                   /\ messageHistory[i].content \in UserTexts]_vars

\* C13: a send made while the credential or the model identifier is missing
\* emits no sendMessageToWorker (nothing is queued to the network thread)
\* and appends an error message to the transcript after the user's message.
C13_MissingConfigRejected ==
    [][(/\ log'.sends = log.sends + 1
        /\ (anthropicApiKey = "" \/ currentModel = ""))
       => /\ netQueue' = netQueue
          /\ Len(log'.net) = Len(log.net)
          /\ Len(view') = Len(view) + 2
          /\ ~view'[Len(view')].isUser]_vars

\* C14: at most one generation request is outstanding at any time: the
\* requests queued to the network thread, the replies not yet finished and
\* the outcomes not yet taken by the orchestrator number one at most.
OutcomesQueued ==
    SelectSeq(mainQueue,
              LAMBDA e : e.sig \in {"messageReceived", "errorOccurred"})

C14_OneRequestOutstanding ==
    Len(netQueue) + Cardinality(inflight) + Len(OutcomesQueued) <= 1

\* C15: an id written into a mirror entry by an acknowledgement is the id of
\* the row that was saved for that entry: the row with that id holds the
\* entry's role and content.
C15_AckGoesToItsEntry ==
    \A i \in 1..Len(messageHistory) :
       messageHistory[i].id # -1
       => /\ messageHistory[i].id \in 1..Len(messages)
          /\ messages[messageHistory[i].id].role = messageHistory[i].role
          /\ messages[messageHistory[i].id].content = messageHistory[i].content

\* C16: a mirror entry populated from the store by a history load carries
\* its store-assigned id: after the handler of historyLoaded has run, no
\* entry of the mirror has id -1.
C16_LoadedEntriesHaveIds ==
    [][(HistoryLoadedAtHead /\ mainQueue' = Tail(mainQueue))
       => \A i \in 1..Len(messageHistory') : messageHistory'[i].id # -1]_vars

RECURSIVE IsSubseq(_, _)
IsSubseq(a, b) ==
    IF a = <<>> THEN TRUE
    ELSE IF b = <<>> THEN FALSE
    ELSE IF Head(a) = Head(b) THEN IsSubseq(Tail(a), Tail(b))
    ELSE IsSubseq(a, Tail(b))

MirrorContents ==
    [i \in 1..Len(messageHistory) |->
        [role |-> messageHistory[i].role, content |-> messageHistory[i].content]]

\* C17: once a history load of the active chat has been applied and none is
\* outstanding, every stored row of the active chat is in the mirror, in the
\* same relative order.
C17_MirrorHoldsDurableRows ==
    (/\ pc = "running"
     /\ log.applied = currentChatId
     /\ ~LoadPendingFor(dbQueue, mainQueue, currentChatId))
    => IsSubseq(RowsOfChat(currentChatId), MirrorContents)

\* C18: every step that changes the active chat id clears the mirror and
\* issues a history load for the new active chat id.
C18_ChatChangeReloads ==
    [][currentChatId' # currentChatId
       => /\ messageHistory' = <<>>
          /\ dbQueue' = Append(dbQueue, LoadReq(currentChatId'))]_vars

SavesQueued == SelectSeq(dbQueue, LAMBDA r : r.op = "saveMessage")

SavesProcessed == Len(log.saves) - Len(SavesQueued)

AcksQueued == SelectSeq(mainQueue, LAMBDA e : e.sig = "messageSaved")

\* C19: saves are processed in submission order: the saves still queued are
\* the newest submissions in their order, the rows stored in this session
\* are processed submissions in submission order with increasing ids, and
\* the acknowledgements delivered and queued are those ids in that order.
C19_SavesInSubmissionOrder ==
    /\ SavesQueued = SubSeq(log.saves, SavesProcessed + 1, Len(log.saves))
    /\ IsSubseq([i \in 1..Len(SessionRows) |->
                    SaveReq(SessionRows[i].chat_id, SessionRows[i].role,
                            SessionRows[i].content)],
                SubSeq(log.saves, 1, SavesProcessed))
    /\ \A i, j \in 1..Len(SessionRows) :
          i < j => SessionRows[i].id < SessionRows[j].id
    /\ log.acks \o [i \in 1..Len(AcksQueued) |-> AcksQueued[i].id]
          = [i \in 1..Len(SessionRows) |-> SessionRows[i].id]

C19_Witness ==
    /\ Len(log.acks) >= 2
    /\ log.dbFailures > 0
    /\ Len(log.saves) > Len(SessionRows)

\* C20: the history read for a chat is the sequence of the messages saved
\* for it in the order they were saved, rows of equal timestamp included.
C20_HistoryInInsertionOrder ==
    [][(/\ dbQueue # <<>>
        /\ Head(dbQueue).op = "loadChatHistory"
        /\ dbQueue' = Tail(dbQueue))
       => mainQueue'[Len(mainQueue')].msgs
             = SelectSeq2(messages, Head(dbQueue).chatId)]_vars

-----------------------------------------------------------------------------
(* Properties of the store *)

LoadAtHead ==
    /\ dbQueue # <<>>
    /\ Head(dbQueue).op = "loadChatHistory"

\* C21: round trip: a history read for a chat after saves of that chat were
\* acknowledged ends with the role and the content of the message saved
\* last for that chat.
C21_SaveLoadRoundTrip ==
    [][(/\ LoadAtHead
        /\ dbQueue' = Tail(dbQueue)
        /\ SelectRows(messages, Head(dbQueue).chatId) # <<>>)
       => LET saved == SelectRows(messages, Head(dbQueue).chatId)
              loaded == mainQueue'[Len(mainQueue')].msgs
          IN /\ Len(loaded) = Len(saved)
             /\ loaded[Len(loaded)].role = saved[Len(saved)].role
             /\ loaded[Len(loaded)].content = saved[Len(saved)].content]_vars

Initialising == pc \in {"TestConnection", "DatabaseWorker"}

DefaultChatRows(tbl) == {i \in 1..Len(tbl) : tbl[i].id = 1}

\* C22: a step of the store's initialisation (the bootstrap block or the
\* worker's constructor), in a first run or in any later one, leaves the
\* stored messages, settings and chat rows as they were, adds at most the
\* row of id 1, and never leaves two rows of id 1; after a constructor that
\* committed there is exactly one row of id 1.
C22_InitIdempotent ==
    [][Initialising
       => /\ messages' = messages
          /\ settings' = settings
          /\ Len(chats') >= Len(chats)
          /\ SubSeq(chats', 1, Len(chats)) = chats
          /\ DefaultChatRows(chats) # {} => chats' = chats
          /\ Cardinality(DefaultChatRows(chats')) <= 1
          /\ (pc' = "ready" /\ log'.initOutcome = "ok")
                => Cardinality(DefaultChatRows(chats')) = 1]_vars

(* The program was started again on a file that an earlier run initialised
   and wrote a message to, and the constructor committed again. *)
C22_Witness ==
    /\ pc = "ready"
    /\ log.inits >= 1
    /\ log.initOutcome = "ok"
    /\ log.ops >= 1
    /\ Len(messages) > log.rows0
    /\ Cardinality(DefaultChatRows(chats)) = 1

\* C23: a step in which a queued saveMessage is carried out queues exactly
\* one signal, messageSaved or error; messageSaved carries the id of the row
\* that the step added for the request, and with error the messages table
\* is as it was before the step.
C23_SaveYieldsOneOutcome ==
    [][SavesProcessed' = SavesProcessed + 1
       => LET r == Head(dbQueue)
              e == mainQueue'[Len(mainQueue')]
          IN /\ Len(mainQueue') = Len(mainQueue) + 1
             /\ e.sig \in {"messageSaved", "error"}
             /\ e.sig = "messageSaved"
                  => /\ Len(messages') = Len(messages) + 1
                     /\ SubSeq(messages', 1, Len(messages)) = messages
                     /\ messages'[Len(messages')].id = e.id
                     /\ messages'[Len(messages')].chat_id = r.chatId
                     /\ messages'[Len(messages')].content = r.content
             /\ e.sig = "error" => messages' = messages]_vars

WriteCalled ==
    /\ log'.ops = log.ops + 1
    /\ log'.lastOp.op \in {"saveMessage", "createChat", "saveSetting"}

EmittedSigs(q) == {q[i].sig : i \in 1..Len(q)}

\* C24: no write is dropped silently: when a call of saveMessage, createChat
\* or saveSetting emits messageSaved or chatCreated, the row of the id it
\* carries is in the table after the call, and a call whose write was not
\* committed emits error.
C24_NoWriteSilentlyDropped ==
    [][WriteCalled
       => /\ \A i \in 1..Len(mainQueue') :
                /\ mainQueue'[i].sig = "messageSaved"
                     => \E j \in 1..Len(messages') :
                           messages'[j].id = mainQueue'[i].id
                /\ mainQueue'[i].sig = "chatCreated"
                     => \E j \in 1..Len(chats') :
                           /\ chats'[j].id = mainQueue'[i].id
                           /\ chats'[j].name = mainQueue'[i].text
          /\ ~log'.lastOp.committed => "error" \in EmittedSigs(mainQueue')]_vars

InitFailed == log.initOutcome \in CtorOutcomes \ {"ok"}

\* C25: a constructor of the store that fails (open, a table, the default
\* chat or the commit) emits error, and every call made on the store after
\* it emits error only and leaves the tables as they were.
C25_FailedInitLeavesStoreUnusable ==
    [][/\ (pc = "DatabaseWorker" /\ log'.initOutcome # "ok")
          => "error" \in EmittedSigs(mainQueue')
       /\ (InitFailed /\ log'.ops = log.ops + 1)
          => /\ EmittedSigs(mainQueue') = {"error"}
             /\ UNCHANGED <<chats, messages, settings>>]_vars

(* A step of the database thread: it takes the request at the head of its
   queue. *)
DbThreadStep ==
    /\ dbQueue # <<>>
    /\ dbQueue' = Tail(dbQueue)

\* C26: the store is used by the database thread only: every step that
\* changes a table of the store is a step in which the database thread
\* carries out a request of its queue, never a step of the interactive
\* thread.
C26_StoreUsedByItsThreadOnly ==
    [][(chats' # chats \/ messages' # messages \/ settings' # settings)
       => DbThreadStep]_vars

-----------------------------------------------------------------------------
(* Properties of teardown and of the chat list *)

ThreadNames == {"networkThread", "localNetworkThread", "databaseThread"}

\* C27: teardown stops every started thread before it releases it: a thread
\* object that has been released is not running, and if it was started it
\* was told to quit before.
C27_TeardownStopsThenReleases ==
    \A t \in ThreadNames :
       threads[t].released
          => /\ ~threads[t].running
             /\ threads[t].started => threads[t].quit

ChatIds(tbl) == {tbl[i].id : i \in 1..Len(tbl)}

\* C28: a step that creates a chat adds exactly one row to the chats table,
\* with an id that no row had; the orchestrator appends that id and name to
\* its chat list (the rest of the list stays as it was, nothing is
\* reloaded), makes the new chat the active one and leaves an empty mirror
\* and an empty view.
C28_CreateChatAppendsAndActivates ==
    [][chats' # chats
       => LET new == chats'[Len(chats')]
          IN /\ Len(chats') = Len(chats) + 1
             /\ SubSeq(chats', 1, Len(chats)) = chats
             /\ new.id \notin ChatIds(chats)
             /\ chatList' = Append(chatList, [id |-> new.id, name |-> new.name])
             /\ currentChatId' = new.id
             /\ messageHistory' = <<>>
             /\ view' = <<>>]_vars

(* The user sent a turn and then created a chat: the new chat is the last
   of the list and the active one, and the mirror that held the turn is
   empty. *)
C28_Witness ==
    /\ log.sends >= 1
    /\ log.newChats >= 1
    /\ Len(chats) >= 2
    /\ chatList # <<>>
    /\ chatList[Len(chatList)].id = chats[Len(chats)].id
    /\ currentChatId = chats[Len(chats)].id
    /\ currentChatId \notin ChatIds(UsedChats)
    /\ messageHistory = <<>>

\* C29: a step that changes the active chat (a switch or the creation of a
\* chat) leaves the stored setting last_active_chat equal to the id of the
\* new active chat.  The setting is written by a direct call within the
\* step and no request of the database thread's queue writes it, so this
\* is also its value once that queue has drained.
C29_LastActiveChatStored ==
    [][currentChatId' # currentChatId
       => loadSetting(settings', LastActiveKey) = NumberStr(currentChatId')]_vars

-----------------------------------------------------------------------------
(* Properties of the settings *)

RowsOfKey(tbl, key) == {r \in tbl : r.key = key}

SettingSaved(op) ==
    /\ op.op = "saveSetting"
    /\ op.committed

\* C30: settings are upserted: after a saveSetting(k, v) that was carried
\* out, whatever was saved under k before, the table holds exactly one row
\* of key k, its value is v, and the rows of every other key are as they
\* were; a loadSetting(k) called next reports v.
C30_SettingsUpsert ==
    /\ [][(log'.ops = log.ops + 1 /\ SettingSaved(log'.lastOp))
          => LET k == log'.lastOp.key
                 v == log'.lastOp.value
             IN /\ Cardinality(RowsOfKey(settings', k)) = 1
                /\ loadSetting(settings', k) = v
                /\ settings' \ RowsOfKey(settings', k)
                      = settings \ RowsOfKey(settings, k)]_vars
    /\ []((/\ SettingSaved(log.prevOp)
           /\ log.lastOp.op = "loadSetting"
           /\ log.lastOp.key = log.prevOp.key
           /\ mainQueue # <<>>
           /\ mainQueue[1].sig = "settingLoaded")
          => mainQueue[1].text = log.prevOp.value)

(* Two values were saved under one key, one after the other, next to a row
   of another key. *)
C30_Witness ==
    /\ SettingSaved(log.prevOp)
    /\ SettingSaved(log.lastOp)
    /\ log.prevOp.key = log.lastOp.key
    /\ log.prevOp.value # log.lastOp.value
    /\ \E r \in settings : r.key # log.lastOp.key

-----------------------------------------------------------------------------
(* Properties of the chat that saves are issued under *)

\* C31: when the orchestrator is running, the active chat id, under which
\* saves are issued, is the id of a row of the chats table, and every
\* message row names a chat that has a row.
C31_ActiveChatExists ==
    /\ pc = "running" => ChatExists(currentChatId)
    /\ \A i \in 1..Len(messages) : ChatExists(messages[i].chat_id)

(* The orchestrator takes a generation outcome from its queue. *)
OutcomeDelivered ==
    /\ mainQueue # <<>>
    /\ Head(mainQueue).sig \in {"messageReceived", "errorOccurred"}
    /\ mainQueue' = Tail(mainQueue)

TurnSent == log'.sends = log.sends + 1

\* C32: message rows come from sent user turns and received generation
\* outcomes and from nothing else: a step issues a save only if it sends a
\* user turn or takes a generation outcome from the queue, a delivered
\* outcome issues exactly one save, and no step changes or removes a row
\* that is stored.
C32_RowsOnlyFromTurns ==
    [][/\ Len(log'.saves) > Len(log.saves) => (TurnSent \/ OutcomeDelivered)
       /\ OutcomeDelivered => Len(log'.saves) = Len(log.saves) + 1
       /\ Len(messages') >= Len(messages)
       /\ SubSeq(messages', 1, Len(messages)) = messages]_vars

-----------------------------------------------------------------------------
(* Properties of the credential *)

(* Two .env files that differ in the value of the credential at most. *)
SameButCredential(f, g) ==
    /\ f.found /\ g.found
    /\ {l \in f.lines : l.name # KeyName} = {l \in g.lines : l.name # KeyName}
    /\ \E l \in f.lines : l.name = KeyName
    /\ \E l \in g.lines : l.name = KeyName

(* The debug lines and the request of a run with the file and the messages
   given. *)
RunDebug(file, msgs) ==
    EnvDebug(file) \cup HelperEnvDebug(file)
        \cup SendDebug(EnvMembers(file).currentModel, msgs)

RunRequest(file, msgs) ==
    OutboundRequest(EnvMembers(file).anthropicApiKey,
                    EnvMembers(file).currentModel, msgs)

SecretNames == {KeyName, TokenName}

\* C33: the credential reaches the request header only: when the request
\* has been posted, its body and the debug lines written are those of every
\* run whose .env file differs in the value of the credential only, and no
\* debug line carries the value of a secret of the .env file.
C33_CredentialOnlyInHeader ==
    pc = "posted"
    => LET msgs == log.request.body.messages
       IN /\ log.request.headers.xApiKey = ValueOf(log.env, KeyName)
          /\ \A g \in DotEnvFiles :
                SameButCredential(log.env, g)
                   => /\ RunRequest(g, msgs).body = log.request.body
                      /\ RunDebug(g, msgs) = log.debug
          /\ \A l \in log.env.lines, d \in log.debug :
                l.name \in SecretNames => d.arg # l.value

-----------------------------------------------------------------------------
(* Properties of a submitted turn *)

RoleContent(seq) ==
    [i \in 1..Len(seq) |-> [role |-> seq[i].role, content |-> seq[i].content]]

(* The step submits a turn and hands a request to the NetworkWorker. *)
Dispatched ==
    /\ TurnSent
    /\ Len(netQueue') = Len(netQueue) + 1

\* C34: the message list handed to the NetworkWorker for a user turn is the
\* (role, content) sequence of the mirror at that moment: the earlier
\* messages in order and the new user turn once, as the last element.
C34_PayloadEqualsMirror ==
    [][Dispatched
       => RoleContent(netQueue'[Len(netQueue')].messages)
             = RoleContent(messageHistory')]_vars

\* C35: a step that submits a text with a credential present appends one
\* user message with that text to the mirror, issues one save (active chat,
\* user, text) and hands one request to the NetworkWorker; a step that
\* takes a generation result or error from the queue appends one assistant
\* message with its text and issues one save for it, and no request.
C35_TurnAppendsSavesDispatches ==
    [][/\ (TurnSent /\ anthropicApiKey # "")
          => \E text \in UserTexts :
                /\ messageHistory' = Append(messageHistory,
                       [id |-> -1, role |-> "user", content |-> text])
                /\ dbQueue' = Append(dbQueue,
                                     SaveReq(currentChatId, "user", text))
                /\ Len(netQueue') = Len(netQueue) + 1
                /\ Len(log'.net) = Len(log.net) + 1
       /\ OutcomeDelivered
          => /\ messageHistory' = Append(messageHistory,
                    [id |-> -1, role |-> "assistant",
                     content |-> Head(mainQueue).text])
             /\ dbQueue' = Append(dbQueue,
                    SaveReq(currentChatId, "assistant", Head(mainQueue).text))
             /\ netQueue' = netQueue
             /\ log'.net = log.net]_vars

(* A turn was submitted, its reply arrived and both saves were issued. *)
C35_Witness ==
    /\ log.sends = 1
    /\ Len(messageHistory) = 2
    /\ messageHistory[1].role = "user"
    /\ messageHistory[2] = [id |-> -1, role |-> "assistant",
                            content |-> BodyFirstText(BodyText)]
    /\ Len(log.saves) = 2
    /\ Len(dbQueue) = 2
    /\ netQueue = <<>>
    /\ inflight = {}

(* The text of the newest user turn of a request: the content of a plain
   turn, the text block of a structured one. *)
NewestUserText(msgs) == msgs[Len(msgs)].content

Classified == pc \in {"post", "posted"}

\* C36: the text handed to the classifier is the text of the newest user
\* turn of the request, whether that turn is plain text or an image block
\* followed by a text block.
C36_ClassifierGetsNewestTurn ==
    Classified
    => log.classified = NewestUserText(log.request.body.messages)

\* C37: the reply or the error of a generation request is saved under the
\* chat that was active when the request was issued, also when another chat
\* was made active before the outcome arrived.
C37_ReplySavedUnderTurnChat ==
    [][(OutcomeDelivered /\ Head(mainQueue).req > 0)
       => /\ Len(dbQueue') = Len(dbQueue) + 1
          /\ dbQueue'[Len(dbQueue')].op = "saveMessage"
          /\ dbQueue'[Len(dbQueue')].chatId
                = log.net[Head(mainQueue).req].chat]_vars

(* The user selects the chat that is active already. *)
ActiveChatSelected ==
    /\ log'.switches = log.switches + 1
    /\ currentChatId' = currentChatId

\* C38: switchToChat for the chat that is active already does nothing: the
\* mirror, the view and the active chat id stay as they are, no history
\* load is requested and no setting is written.
C38_SwitchToActiveIsNoOp ==
    [][ActiveChatSelected
       => /\ messageHistory' = messageHistory
          /\ view' = view
          /\ dbQueue' = dbQueue
          /\ settings' = settings
          /\ log'.switchLoads = log.switchLoads]_vars

(* The active chat was selected while the mirror and the view held a
   message, and they still hold it. *)
C38_Witness ==
    /\ pc = "running"
    /\ log.switches = 1
    /\ log.switchLoads = <<>>
    /\ log.sends = 1
    /\ messageHistory # <<>>
    /\ view # <<>>

Returned == {capture.returned[i] : i \in 1..Len(capture.returned)}

EventsOfCall(call, sigs) ==
    {j \in 1..Len(capture.events) :
        /\ capture.events[j].call = call
        /\ capture.events[j].sig \in sigs}

RejectedByValidation(r) ==
    r.error_message \in {InvalidRangeText, SampleRateText, FftSizeText}

PassedValidation(r) ==
    r.error_message \notin {NoReceiverText, AlreadyCapturingText,
                            InvalidRangeText, SampleRateText, FftSizeText}

\* C40: every call of captureRange that returned emitted exactly one of
\* captureError and captureComplete; it emitted captureStarted only if it
\* passed validation, and then before that event; a call rejected by
\* validation emitted captureError and no captureStarted; and a result with
\* success = false came with a captureError.
C40_CaptureEventProtocol ==
    \A r \in Returned :
       LET terminal == EventsOfCall(r.call, {"captureError", "captureComplete"})
           started == EventsOfCall(r.call, {"captureStarted"})
           errors == EventsOfCall(r.call, {"captureError"})
       IN /\ Cardinality(terminal) = 1
          /\ started # {}
             => /\ PassedValidation(r)
                /\ \A j \in started, t \in terminal : j < t
          /\ RejectedByValidation(r) => (errors # {} /\ started = {})
          /\ ~r.success => errors # {}

=============================================================================
